---------------------------- MODULE Spec2Model ----------------------------
(***************************************************************************)
(* Verification model of the incentive-discovery program cache and the     *)
(* jurisdiction discovery worker (src/src/core/cache.py,                   *)
(* src/src/agents/discovery/government_level.py).                          *)
(*                                                                         *)
(* Strings are sequences of one-character strings, so that normalisation   *)
(* (lower-casing, acronym expansion, punctuation stripping, whitespace     *)
(* collapsing) is computed character by character as the code does.        *)
(***************************************************************************)
EXTENDS Integers, Sequences, FiniteSets, TLC

VARIABLES db, pg, now, last, wk, search_log, graph, session,
          rate_limiter, callers, sessions, roi, retry

vars == <<db, pg, now, last, wk, search_log, graph, session,
         rate_limiter, callers, sessions, roi, retry>>

(***************************************************************************)
(* Bounds of the model.                                                    *)
(***************************************************************************)
MaxDisc == 2
MaxMiss == 3
MaxClock == 1
MaxExtract == 2
MaxUpserts == 3
MaxMergeMiss == 1
MaxRuns == 3
MaxStateFound == 2
MaxLocalFound == 1
MaxShortlists == 1

(***************************************************************************)
(* Characters and strings.                                                 *)
(***************************************************************************)
IsSpace(c) == c = " "

\* \w of the regular expressions: letters, digits and the underscore
IsWord(c) == c \in {"E", "Z", "e", "z", "n", "t", "r", "p", "i", "s", "o", "_"}

\* str.lower() on one character
LowerChar(c) ==
    CASE c = "E" -> "e" [] c = "Z" -> "z" [] c = "V" -> "v" [] c = "H" -> "h"
      [] c = "W" -> "w" [] c = "B" -> "b" [] OTHER -> c

Lower(s) == [i \in 1..Len(s) |-> LowerChar(s[i])]

RECURSIVE LStrip(_)
LStrip(s) == IF s # <<>> /\ IsSpace(Head(s)) THEN LStrip(Tail(s)) ELSE s

RECURSIVE RStrip(_)
RStrip(s) ==
    IF s # <<>> /\ IsSpace(s[Len(s)]) THEN RStrip(SubSeq(s, 1, Len(s) - 1)) ELSE s

\* str.strip()
Strip(s) == RStrip(LStrip(s))

\* the pattern \b<pat>\b matches s at position i
MatchesAt(s, pat, i) ==
    /\ i + Len(pat) - 1 <= Len(s)
    /\ SubSeq(s, i, i + Len(pat) - 1) = pat
    /\ (i = 1 \/ ~IsWord(s[i - 1]))
    /\ (i + Len(pat) > Len(s) \/ ~IsWord(s[i + Len(pat)]))

\* re.sub(r"\b<pat>\b", exp, s): every non-overlapping match, left to right
RECURSIVE SubFrom(_, _, _, _)
SubFrom(s, pat, exp, i) ==
    IF i > Len(s) THEN <<>>
    ELSE IF MatchesAt(s, pat, i)
         THEN exp \o SubFrom(s, pat, exp, i + Len(pat))
         ELSE <<s[i]>> \o SubFrom(s, pat, exp, i + 1)

ReSub(s, pat, exp) == SubFrom(s, pat, exp, 1)

\* the entry of ACRONYM_MAP whose pattern can occur over the model's alphabet
ACRONYM_MAP ==
    << [pat |-> <<"e", "z">>,
        exp |-> <<"e", "n", "t", "e", "r", "p", "r", "i", "s", "e", " ",
                  "z", "o", "n", "e">>] >>

RECURSIVE ExpandAcronyms(_, _)
ExpandAcronyms(s, k) ==
    IF k > Len(ACRONYM_MAP) THEN s
    ELSE ExpandAcronyms(ReSub(s, ACRONYM_MAP[k].pat, ACRONYM_MAP[k].exp), k + 1)

\* re.sub(r"[^\w\s]", " ", s)
StripPunct(s) ==
    [i \in 1..Len(s) |-> IF IsWord(s[i]) \/ IsSpace(s[i]) THEN s[i] ELSE " "]

\* re.sub(r"\s+", " ", s)
RECURSIVE CollapseSpace(_)
CollapseSpace(s) ==
    IF s = <<>> THEN <<>>
    ELSE IF IsSpace(Head(s))
         THEN <<" ">> \o CollapseSpace(LStrip(Tail(s)))
         ELSE <<Head(s)>> \o CollapseSpace(Tail(s))

normalize_program_name(name) ==
    IF name = <<>> THEN <<>>
    ELSE Strip(CollapseSpace(StripPunct(ExpandAcronyms(Strip(Lower(name)), 1))))

\* SHA-256 of "name|level|location" cut to 16 hex digits, taken as
\* collision free: the digest is identified with the triple it hashes
compute_program_id(normalized_name, level, location_key) ==
    <<normalized_name, level, location_key>>

(***************************************************************************)
(* Program records.  A program handed to the cache is a dict: a function   *)
(* whose domain is the set of keys that are present.                       *)
(***************************************************************************)
\* dict.get(key, default)
Get(d, f, default) == IF f \in DOMAIN d THEN d[f] ELSE default

EMPTY == <<>>

\* the program names and agencies of the model's calls
NameEZ == <<"E", "z">>            \* normalises to "enterprise zone"
NameE_Z == <<"E", "-", "z">>      \* normalises to "e z"
NameZE == <<"z", " ", "E">>       \* normalises to "z e"
NamePunct == <<"-">>              \* normalises to ""

AgencyE == <<"e">>
AgencyZ == <<"z">>

ModelNames == {EMPTY, NameEZ, NameE_Z, NameZE, NamePunct, <<"Z">>, <<"E">>}

\* normalize_program_name on the names of the model, computed once
NormalizedNames == [name \in ModelNames |-> normalize_program_name(name)]

Normalized(name) ==
    IF name \in ModelNames THEN NormalizedNames[name] ELSE normalize_program_name(name)

\* length of the characters of a population name
PopLen(p) ==
    CASE p = "veterans" -> 8
      [] p = "veteran" -> 7
      [] p = "aliens" -> 6
      [] OTHER -> 1

RECURSIVE SumPopLen(_)
SumPopLen(l) == IF l = <<>> THEN 0 ELSE PopLen(Head(l)) + 2 + SumPopLen(Tail(l))

\* len(json.dumps(list of strings)): brackets, quoted items, ", " separators
JsonLen(l) == 2 + SumPopLen(l) + (IF Len(l) > 1 THEN 2 * (Len(l) - 1) ELSE 0)

\* the entries of POPULATION_MAP for the population names of the model
POPULATION_MAP == [veterans |-> "veterans", veteran |-> "veterans"]

_normalize_population(p) ==
    IF p \in DOMAIN POPULATION_MAP THEN POPULATION_MAP[p] ELSE "none"

\* Coalesce that fills a stored value only while it is empty
CoalesceKeepStored(incoming, stored) == IF stored # EMPTY THEN stored ELSE incoming

\* COALESCE(NULLIF(incoming, ''), stored)
Coalesce(incoming, stored) == IF incoming # EMPTY THEN incoming ELSE stored

\* CASE WHEN length(incoming) > length(stored) THEN incoming ELSE stored END
Longer(incoming, stored) == IF Len(incoming) > Len(stored) THEN incoming ELSE stored

\* Ratchet that takes the incoming confidence as it comes
RatchetOverwrite(incoming, stored) == incoming

\* the CASE expression that ratchets the stored confidence
Ratchet(incoming, stored) ==
    IF incoming = "high" THEN "high"
    ELSE IF incoming = "medium" /\ stored # "high" THEN "medium"
    ELSE stored

CacheKey(program, level, location_key) ==
    compute_program_id(Normalized(Get(program, "program_name", EMPTY)),
                       level, location_key)

(***************************************************************************)
(* The embedded (SQLite) back-end.  The table `programs` is a function     *)
(* from cache_key, its primary key, to the row.                            *)
(***************************************************************************)
\* SqliteUpdateRow without the reset of miss_count
SqliteUpdateRowKeepMiss(row, program, t) ==
    LET pops == Get(program, "target_populations", <<>>)
    IN [row EXCEPT
          !.last_verified_at = t,
          !.discovery_count = @ + 1,
          !.agency = Coalesce(Get(program, "agency", EMPTY), @),
          !.benefit_type = Coalesce(Get(program, "benefit_type", EMPTY), @),
          !.max_value = Coalesce(Get(program, "max_value", EMPTY), @),
          !.target_populations = IF JsonLen(pops) > JsonLen(@) THEN pops ELSE @,
          !.description = Longer(Get(program, "description", EMPTY), @),
          !.source_url = Coalesce(Get(program, "source_url", EMPTY), @),
          !.confidence = Ratchet(Get(program, "confidence", "low"), @)]

SqliteUpdateRow(row, program, t) ==
    LET pops == Get(program, "target_populations", <<>>)
    IN [row EXCEPT
          !.last_verified_at = t,
          !.discovery_count = @ + 1,
          !.miss_count = 0,
          !.agency = Coalesce(Get(program, "agency", EMPTY), @),
          !.benefit_type = Coalesce(Get(program, "benefit_type", EMPTY), @),
          !.max_value = Coalesce(Get(program, "max_value", EMPTY), @),
          !.target_populations = IF JsonLen(pops) > JsonLen(@) THEN pops ELSE @,
          !.description = Longer(Get(program, "description", EMPTY), @),
          !.source_url = Coalesce(Get(program, "source_url", EMPTY), @),
          !.confidence = Ratchet(Get(program, "confidence", "low"), @)]

\* the rowid of the next row of a partition.  SQLite numbers the rows of the
\* table in insertion order; every query of the program selects within one
\* partition, so the model keeps the order of a row among the rows of its
\* partition
SqliteNextRowid(tbl, level, location_key) ==
    1 + Cardinality({k \in DOMAIN tbl : /\ tbl[k].government_level = level
                                        /\ tbl[k].location_key = location_key})

SqliteInsertRow(program, level, location_key, t, rowid) ==
    LET name == Get(program, "program_name", EMPTY)
    IN [rowid |-> rowid,
        cache_key |-> CacheKey(program, level, location_key),
        program_name |-> name,
        program_name_normalized |-> Normalized(name),
        agency |-> Get(program, "agency", EMPTY),
        benefit_type |-> Get(program, "benefit_type", EMPTY),
        jurisdiction |-> Get(program, "jurisdiction", ""),
        max_value |-> Get(program, "max_value", EMPTY),
        target_populations |-> Get(program, "target_populations", <<>>),
        description |-> Get(program, "description", EMPTY),
        source_url |-> Get(program, "source_url", EMPTY),
        confidence |-> Get(program, "confidence", "low"),
        government_level |-> level,
        location_key |-> location_key,
        first_discovered_at |-> t,
        last_verified_at |-> t,
        discovery_count |-> 1,
        miss_count |-> 0]

\* an upsert that writes the row anew over the row another run has written
SqliteUpsertReplace(tbl, program, level, location_key, t) ==
    LET cache_key == CacheKey(program, level, location_key)
        row == SqliteInsertRow(program, level, location_key, t,
                               SqliteNextRowid(tbl, level, location_key))
    IN IF cache_key \in DOMAIN tbl
       THEN [tbl EXCEPT ![cache_key] = row]
       ELSE tbl @@ (cache_key :> row)

\* the table after _sqlite_upsert_program(program, level, location_key)
_sqlite_upsert_program(tbl, program, level, location_key, t) ==
    LET cache_key == CacheKey(program, level, location_key)
    IN IF cache_key \in DOMAIN tbl
       THEN [tbl EXCEPT ![cache_key] = SqliteUpdateRow(@, program, t)]
       ELSE tbl @@ (cache_key :> SqliteInsertRow(program, level, location_key, t,
                                                 SqliteNextRowid(tbl, level, location_key)))

\* SqliteConfirm that leaves discovery_count as it is
SqliteConfirmNoCount(tbl, cache_key, t) ==
    IF cache_key \in DOMAIN tbl
    THEN [tbl EXCEPT ![cache_key] = [@ EXCEPT !.last_verified_at = t,
                                             !.miss_count = 0]]
    ELSE tbl

\* the table after confirm_program(cache_key); no row with that key: no change
SqliteConfirm(tbl, cache_key, t) ==
    IF cache_key \in DOMAIN tbl
    THEN [tbl EXCEPT ![cache_key] = [@ EXCEPT !.last_verified_at = t,
                                             !.discovery_count = @ + 1,
                                             !.miss_count = 0]]
    ELSE tbl

\* SqliteIncrementMiss without the test on found_keys
SqliteIncrementMissAll(tbl, level, location_key, found_keys) ==
    [k \in DOMAIN tbl |->
        IF /\ tbl[k].government_level = level
           /\ tbl[k].location_key = location_key
        THEN [tbl[k] EXCEPT !.miss_count = @ + 1]
        ELSE tbl[k]]

\* SqliteIncrementMiss without the tests on the level and the location key
SqliteIncrementMissAnywhere(tbl, level, location_key, found_keys) ==
    [k \in DOMAIN tbl |->
        IF k \notin found_keys
        THEN [tbl[k] EXCEPT !.miss_count = @ + 1]
        ELSE tbl[k]]

\* the table after increment_miss_count(level, location_key, found_keys)
SqliteIncrementMiss(tbl, level, location_key, found_keys) ==
    [k \in DOMAIN tbl |->
        IF /\ tbl[k].government_level = level
           /\ tbl[k].location_key = location_key
           /\ k \notin found_keys
        THEN [tbl[k] EXCEPT !.miss_count = @ + 1]
        ELSE tbl[k]]

\* Hallucination with the threshold on miss_count off by one
HallucinationAboveThree(row) == row.miss_count > 3 /\ row.discovery_count <= 1

\* the read-time hallucination filter
Hallucination(row) == row.miss_count >= 3 /\ row.discovery_count <= 1

\* SqliteSelected by level alone
SqliteSelectedByLevel(tbl, level, location_key) ==
    {k \in DOMAIN tbl : tbl[k].government_level = level /\ ~Hallucination(tbl[k])}

\* the keys of the rows selected by _sqlite_get_cached_programs
SqliteSelected(tbl, level, location_key) ==
    {k \in DOMAIN tbl :
        /\ tbl[k].government_level = level
        /\ tbl[k].location_key = location_key
        /\ ~Hallucination(tbl[k])}

\* _row_to_program: the columns of the row as a program dict, with
\* id := cache_key
_row_to_program(row) ==
    [f \in (DOMAIN row \ {"rowid"}) \cup {"id"} |->
        IF f = "id" THEN row.cache_key ELSE row[f]]

\* the keys of a set of rows in the order a scan of the table visits them
RECURSIVE SqliteRowOrder(_, _)
SqliteRowOrder(tbl, keys) ==
    IF keys = {} THEN <<>>
    ELSE LET k == CHOOSE j \in keys : \A i \in keys : tbl[j].rowid <= tbl[i].rowid
         IN <<k>> \o SqliteRowOrder(tbl, keys \ {k})

Range(seq) == {seq[i] : i \in 1..Len(seq)}

\* _sqlite_get_cached_programs with a row verified exactly at the cutoff
\* counted as stale
SqliteGetCachedStrictCutoff(tbl, level, location_key, ttl_days, t) ==
    LET cutoff == t - ttl_days
        sel == SqliteSelected(tbl, level, location_key)
        fresh == SqliteRowOrder(tbl, {j \in sel : tbl[j].last_verified_at > cutoff})
        stale == SqliteRowOrder(tbl, {j \in sel : ~(tbl[j].last_verified_at > cutoff)})
    IN [fresh |-> [i \in 1..Len(fresh) |-> _row_to_program(tbl[fresh[i]])],
        stale |-> [i \in 1..Len(stale) |-> _row_to_program(tbl[stale[i]])]]

\* (fresh, stale) of _sqlite_get_cached_programs, as lists of program dicts
_sqlite_get_cached_programs(tbl, level, location_key, ttl_days, t) ==
    LET cutoff == t - ttl_days
        sel == SqliteSelected(tbl, level, location_key)
        fresh == SqliteRowOrder(tbl, {j \in sel : tbl[j].last_verified_at >= cutoff})
        stale == SqliteRowOrder(tbl, {j \in sel : ~(tbl[j].last_verified_at >= cutoff)})
    IN [fresh |-> [i \in 1..Len(fresh) |-> _row_to_program(tbl[fresh[i]])],
        stale |-> [i \in 1..Len(stale) |-> _row_to_program(tbl[stale[i]])]]

\* the two lists of a read as sets
AsSets(read) == [fresh |-> Range(read.fresh), stale |-> Range(read.stale)]

(***************************************************************************)
(* Fuzzy matching: fuzzy_match_program over the token-set ratio.  A score  *)
(* is a pair <<n, d>> that stands for the percentage 100 * n / d.          *)
(***************************************************************************)
\* str.split(): the maximal runs of non-space characters, in order
\* the length of the run of non-space characters that u starts with
WordLen(u) == Cardinality({n \in 1..Len(u) : \A i \in 1..n : ~IsSpace(u[i])})

RECURSIVE Split(_)
SplitWord(t, n) == <<SubSeq(t, 1, n)>> \o Split(SubSeq(t, n + 1, Len(t)))

SplitStripped(t) == IF t = <<>> THEN <<>> ELSE SplitWord(t, WordLen(t))

Split(s) == SplitStripped(LStrip(s))

TokenSet(s) == Range(Split(s))

\* code points of the characters that normalised text can hold
Ord(c) ==
    CASE c = " " -> 32 [] c = "-" -> 45 [] c = "E" -> 69 [] c = "Z" -> 90
      [] c = "_" -> 95 [] c = "e" -> 101 [] c = "i" -> 105 [] c = "n" -> 110
      [] c = "o" -> 111 [] c = "p" -> 112 [] c = "r" -> 114 [] c = "s" -> 115
      [] c = "t" -> 116 [] c = "z" -> 122

\* a < b in the order of Python strings
RECURSIVE StrLess(_, _)
StrLess(a, b) ==
    IF b = <<>> THEN FALSE
    ELSE IF a = <<>> THEN TRUE
    ELSE IF Head(a) = Head(b) THEN StrLess(Tail(a), Tail(b))
    ELSE Ord(Head(a)) < Ord(Head(b))

\* " ".join(sorted(tokens))
Least(tokens) == CHOOSE t \in tokens : \A u \in tokens \ {t} : StrLess(t, u)

RECURSIVE JoinSorted(_)
JoinFrom(least, tokens) ==
    IF tokens = {least} THEN least
    ELSE least \o <<" ">> \o JoinSorted(tokens \ {least})

JoinSorted(tokens) == IF tokens = {} THEN <<>> ELSE JoinFrom(Least(tokens), tokens)

\* the pairs <<i, k>> such that a common subsequence of a and of the characters
\* of b read so far has length k and ends at a[i]; <<0, 0>> is the empty one
RECURSIVE CommonEnds(_, _, _)
CommonEnds(ends, a, b) ==
    IF b = <<>> THEN ends
    ELSE CommonEnds(ends \cup UNION { {<<i, e[2] + 1>> :
                                          i \in {j \in (e[1] + 1)..Len(a) : a[j] = Head(b)}} :
                                      e \in ends },
                    a, Tail(b))

LongestEnd(ends) == CHOOSE k \in {e[2] : e \in ends} : \A e \in ends : e[2] <= k

\* length of the longest common subsequence, read along the shorter string
LCS(a, b) ==
    IF Len(a) >= Len(b) THEN LongestEnd(CommonEnds({<<0, 0>>}, a, b))
    ELSE LongestEnd(CommonEnds({<<0, 0>>}, b, a))

\* insertions and deletions that turn a into b
IndelDistance(a, b) == Len(a) + Len(b) - 2 * LCS(a, b)

\* 100 - 100 * dist / lensum, and 100 when lensum is 0
NormDistance(dist, lensum) == IF lensum = 0 THEN <<1, 1>> ELSE <<lensum - dist, lensum>>

ScoreLeq(x, y) == x[1] * y[2] <= y[1] * x[2]

ScoreMax(x, y) == IF ScoreLeq(x, y) THEN y ELSE x

\* the ratio of token_set_ratio once the tokens are joined: the greatest of
\* the ratios of sect+ab against sect+ba, sect against sect+ab and sect
\* against sect+ba; sect is empty here unless both differences are not
ScoresMax(sect_len, result, sect_ab_ratio, sect_ba_ratio) ==
    IF sect_len = 0 THEN result
    ELSE ScoreMax(result, ScoreMax(sect_ab_ratio, sect_ba_ratio))

LengthsRatio(sect_len, sep, diff_ab, diff_ba) ==
    ScoresMax(sect_len,
              NormDistance(IndelDistance(diff_ab, diff_ba),
                           2 * sect_len + 2 * sep + Len(diff_ab) + Len(diff_ba)),
              NormDistance(sep + Len(diff_ab), 2 * sect_len + sep + Len(diff_ab)),
              NormDistance(sep + Len(diff_ba), 2 * sect_len + sep + Len(diff_ba)))

JoinedRatio(sect_len, diff_ab, diff_ba) ==
    LengthsRatio(sect_len, IF sect_len # 0 THEN 1 ELSE 0, diff_ab, diff_ba)

TokenSetsRatio(tokens_a, tokens_b) ==
    IF tokens_a = {} \/ tokens_b = {} THEN <<0, 1>>
    ELSE IF /\ tokens_a \cap tokens_b # {}
            /\ (tokens_a \subseteq tokens_b \/ tokens_b \subseteq tokens_a)
         THEN <<1, 1>>
    ELSE JoinedRatio(Len(JoinSorted(tokens_a \cap tokens_b)),
                     JoinSorted(tokens_a \ tokens_b),
                     JoinSorted(tokens_b \ tokens_a))

\* rapidfuzz.fuzz.token_set_ratio(s1, s2)
token_set_ratio(s1, s2) == TokenSetsRatio(TokenSet(s1), TokenSet(s2))

\* (name_score * 0.7) + (agency_score * 0.3), as a score
Combined(name_score, agency_score) ==
    <<7 * name_score[1] * agency_score[2] + 3 * agency_score[1] * name_score[2],
      10 * name_score[2] * agency_score[2]>>

\* (x or "").lower().strip() of an agency
AgencyKey(program) == Strip(Lower(Get(program, "agency", EMPTY)))

\* cached.get("program_name_normalized", normalize_program_name(...))
CachedName(cached) ==
    IF "program_name_normalized" \in DOMAIN cached
    THEN cached.program_name_normalized
    ELSE Normalized(Get(cached, "program_name", EMPTY))

\* 50.0 unless both agencies are non-empty
AgencyScore(new_agency, cached_agency) ==
    IF new_agency # EMPTY /\ cached_agency # EMPTY
    THEN token_set_ratio(new_agency, cached_agency)
    ELSE <<1, 2>>

\* the combined score of one cached program against the new one
MatchScore(new_program, cached) ==
    Combined(token_set_ratio(Normalized(Get(new_program, "program_name", EMPTY)),
                             CachedName(cached)),
             AgencyScore(AgencyKey(new_program), AgencyKey(cached)))

\* the loop over cached_programs: <<index of best_match, best_score>>, the
\* index 0 while no program scored above 0; a later program replaces the
\* best one only with a strictly greater score
RECURSIVE BestMatch(_, _, _, _, _)
BestOf(new_program, cached_programs, i, best, best_score, combined) ==
    IF ~ScoreLeq(combined, best_score)
    THEN BestMatch(new_program, cached_programs, i + 1, i, combined)
    ELSE BestMatch(new_program, cached_programs, i + 1, best, best_score)

BestMatch(new_program, cached_programs, i, best, best_score) ==
    IF i > Len(cached_programs) THEN <<best, best_score>>
    ELSE BestOf(new_program, cached_programs, i, best, best_score,
                MatchScore(new_program, cached_programs[i]))

\* if best_score >= threshold: return best_match, else None (0)
AtLeast(best, threshold) ==
    IF best[1] # 0 /\ ScoreLeq(<<threshold, 100>>, best[2]) THEN best[1] ELSE 0

\* fuzzy_match_program: the index in cached_programs of the match, 0 for None
fuzzy_match_program(new_program, cached_programs, threshold) ==
    IF Normalized(Get(new_program, "program_name", EMPTY)) = EMPTY THEN 0
    ELSE AtLeast(BestMatch(new_program, cached_programs, 1, 0, <<0, 1>>), threshold)

(***************************************************************************)
(* The calls of the model: names, programs and partitions.                 *)
(***************************************************************************)
TypeOther == <<"o">>
TypeTax == <<"t">>

Arizona == <<"state", "arizona">>
Illinois == <<"state", "illinois">>
Federal == <<"federal", "federal">>

Partitions == {Arizona, Illinois}

\* a program as the unit tests build it: name, agency and benefit type
Prog(name) == [program_name |-> name, agency |-> AgencyE, benefit_type |-> TypeOther]

\* upsert calls of the cache specification: two programs in one partition,
\* one of them also in another location of the same level
UpsertCalls ==
    { <<Prog(NameEZ), Arizona>>, <<Prog(NameE_Z), Arizona>>, <<Prog(NameEZ), Illinois>> }

AllKeys == {CacheKey(c[1], c[2][1], c[2][2]) : c \in UpsertCalls}

TTLs == {0, 1}

\* seed_federal_programs: upsert_program(prog, "federal", "federal",
\* state_name="United States") for every program of the list
RECURSIVE SqliteSeed(_, _, _)
SqliteSeed(tbl, programs, t) ==
    IF programs = <<>> THEN tbl
    ELSE SqliteSeed(_sqlite_upsert_program(tbl, Head(programs), "federal", "federal", t),
                    Tail(programs), t)

(***************************************************************************)
(* The jurisdiction discovery worker (GovernmentLevelDiscoveryAgent).      *)
(***************************************************************************)
\* one worker per session; the second one runs in the specification of
\* two overlapping sessions only
Workers == {1, 2}

IdleWorker == [pc |-> "idle", runs |-> 0]

\* s.lower().strip().replace(" ", "_") on the location names of the model
_slug(name) ==
    CASE name = "Arizona" -> "arizona"
      [] name = "Illinois" -> "illinois"
      [] name = "New York" -> "new_york"
      [] name = "Maricopa County" -> "maricopa_county"
      [] name = "Surprise" -> "surprise"
      [] OTHER -> name

\* f"{a}_{b}" on the slugs of the model
SlugPair(a, b) ==
    CASE a = "maricopa_county" /\ b = "arizona" -> "maricopa_county_arizona"
      [] a = "surprise" /\ b = "arizona" -> "surprise_arizona"
      [] a = "" /\ b = "arizona" -> "_arizona"
      [] OTHER -> "_"

normalize_location(level, state_name, county_name, city_name) ==
    IF level = "federal" THEN "federal"
    ELSE IF level = "state" THEN _slug(state_name)
    ELSE IF level = "county" THEN SlugPair(_slug(county_name), _slug(state_name))
    ELSE IF level = "city" THEN SlugPair(_slug(city_name), _slug(state_name))
    ELSE _slug(state_name)

\* the state handed to a discovery node
Contexts == { [state_name |-> "Arizona", county_name |-> "", city_name |-> ""] }

WorkerLevels == {"state", "federal"}

_get_location_key(level, state) ==
    normalize_location(level, state.state_name, state.county_name, state.city_name)

_get_location_name(level, state) ==
    IF level = "city" /\ state.city_name # "" THEN state.city_name
    ELSE IF level = "county" /\ state.county_name # "" THEN state.county_name
    ELSE state.state_name

\* the hard-coded federal programs, with names over the model's alphabet
FEDERAL_PROGRAMS ==
    << [program_name |-> NameEZ, agency |-> AgencyE, benefit_type |-> TypeTax,
        max_value |-> <<"e">>, target_populations |-> <<"veterans">>,
        description |-> <<"e">>, source_url |-> <<"e">>, confidence |-> "high"],
       [program_name |-> <<"Z">>, agency |-> AgencyE, benefit_type |-> TypeOther,
        max_value |-> <<"e">>, target_populations |-> <<"veteran">>,
        description |-> <<"e">>, source_url |-> <<"e">>, confidence |-> "high"],
       [program_name |-> <<"E">>, agency |-> AgencyE, benefit_type |-> TypeOther,
        max_value |-> <<"e">>, target_populations |-> <<"aliens">>,
        description |-> <<"e">>, source_url |-> <<"e">>, confidence |-> "high"] >>

\* d with d[f] := v
Put(d, f, v) == IF f \in DOMAIN d THEN [d EXCEPT ![f] = v] ELSE d @@ (f :> v)

\* not prog.get(f): the key is absent or its value is empty
Missing(prog, f) == Get(prog, f, EMPTY) = EMPTY

RequiredFields == {"program_name", "agency", "benefit_type"}

\* the defaults of extract_programs: prog.setdefault(key, value)
ExtractDefaults ==
    [target_populations |-> <<>>, max_value |-> <<"Unknown">>,
     description |-> EMPTY, source_url |-> EMPTY, confidence |-> "low"]

\* Validated with the id computed from the name as extracted
ValidatedRawName(prog, level, location_key, location_name) ==
    [id |-> compute_program_id(Get(prog, "program_name", EMPTY), level, location_key),
     government_level |-> level,
     jurisdiction |-> location_name] @@ prog @@ ExtractDefaults

\* the metadata extract_programs sets on a valid record, over the record,
\* over the defaults for the keys it lacks
Validated(prog, level, location_key, location_name) ==
    [id |-> compute_program_id(Normalized(Get(prog, "program_name", EMPTY)),
                               level, location_key),
     government_level |-> level,
     jurisdiction |-> location_name] @@ prog @@ ExtractDefaults

\* extract_programs on the list the model returned: records missing a
\* required field are skipped, the others get their id and defaults
RECURSIVE extract_programs(_, _, _, _)
extract_programs(programs, level, location_key, location_name) ==
    IF programs = <<>> THEN <<>>
    ELSE LET prog == Head(programs)
             rest == extract_programs(Tail(programs), level, location_key, location_name)
         IN IF \E f \in RequiredFields : Missing(prog, f)
            THEN rest
            ELSE <<Validated(prog, level, location_key, location_name)>> \o rest

\* result_programs[prog["id"]] = prog on a dict that keeps insertion order
DictSet(result, prog) ==
    IF \E i \in 1..Len(result) : result[i].id = prog.id
    THEN [i \in 1..Len(result) |-> IF result[i].id = prog.id THEN prog ELSE result[i]]
    ELSE Append(result, prog)

\* the hard-coded federal programs as discover adds them to its result
FederalProg(prog) ==
    [id |-> compute_program_id(Normalized(prog.program_name), "federal", "federal"),
     government_level |-> "federal",
     jurisdiction |-> "United States"] @@ prog

FederalProgs(level) ==
    IF level = "federal"
    THEN [i \in 1..Len(FEDERAL_PROGRAMS) |-> FederalProg(FEDERAL_PROGRAMS[i])]
    ELSE <<>>

\* step 4 of discover: every extracted program is confirmed against its
\* fuzzy match in the baseline or upserted as new
RECURSIVE MergeExtracted(_, _, _, _, _, _)
MergeExtracted(acc, extracted, all_cached, level, location_key, t) ==
    IF extracted = <<>> THEN acc
    ELSE LET prog == Head(extracted)
             prog_key == prog.id
             match == IF all_cached # <<>>
                      THEN fuzzy_match_program(prog, all_cached, 80)
                      ELSE 0
             cached_key == all_cached[match].cache_key
             next ==
                IF match # 0
                THEN [tbl |-> SqliteConfirm(acc.tbl, cached_key, t),
                      found |-> acc.found \cup {cached_key, prog_key},
                      result |-> DictSet(acc.result, Put(prog, "id", cached_key))]
                ELSE [tbl |-> _sqlite_upsert_program(acc.tbl, prog, level, location_key, t),
                      found |-> acc.found \cup {prog_key},
                      result |-> DictSet(acc.result, prog)]
         IN MergeExtracted(next, Tail(extracted), all_cached, level, location_key, t)

\* CarryOver that carries nothing over
CarryOverNone(result, all_cached, found) == result

\* the cached programs that were not found again are carried over
RECURSIVE CarryOver(_, _, _)
CarryOver(result, all_cached, found) ==
    IF all_cached = <<>> THEN result
    ELSE CarryOver(IF Head(all_cached).cache_key \notin found
                   THEN DictSet(result, Head(all_cached))
                   ELSE result,
                   Tail(all_cached), found)

\* the records the extraction model returns, valid or not
ExtractRecords ==
    { [program_name |-> NameE_Z, agency |-> AgencyE, benefit_type |-> TypeOther],
      [program_name |-> NameZE, agency |-> AgencyE, benefit_type |-> TypeOther,
       confidence |-> "high"],
      [program_name |-> NamePunct, agency |-> AgencyE, benefit_type |-> TypeOther],
      [program_name |-> NameEZ, agency |-> EMPTY, benefit_type |-> TypeOther] }

ExtractLists == UNION {[1..n -> ExtractRecords] : n \in 0..MaxExtract}

\* what the previous call of discover on this agent was given and returned
PreviousRun(me) ==
    IF me.pc = "done"
    THEN [level |-> me.level, location_key |-> me.location_key,
          extracted |-> me.extracted, programs |-> me.programs]
    ELSE [level |-> "none"]

\* discover up to the first await: the baseline is read and, at the federal
\* level, the hard-coded programs are upserted
WorkerStart(w) ==
    \E level \in WorkerLevels, state \in Contexts :
        LET location_key == _get_location_key(level, state)
            read == _sqlite_get_cached_programs(db, level, location_key, 30, now)
        IN /\ wk[w].pc # "searching"
           /\ wk[w].runs < MaxRuns
           /\ wk' = [wk EXCEPT ![w] =
                          [pc |-> "searching", runs |-> wk[w].runs + 1,
                           level |-> level, state |-> state,
                           location_key |-> location_key,
                           all_cached |-> read.fresh \o read.stale,
                           prev |-> PreviousRun(wk[w])]]
           /\ db' = IF level = "federal" THEN SqliteSeed(db, FEDERAL_PROGRAMS, now) ELSE db
           /\ last' = [op |-> "worker_start", worker |-> w]
           /\ UNCHANGED <<pg, now, search_log, graph, session,
                          rate_limiter, callers, sessions, roi, retry>>

\* discover after search and extraction: merge, write back, return
WorkerFinish(w) ==
    \E programs \in ExtractLists :
        LET me == wk[w]
            extracted == extract_programs(programs, me.level, me.location_key,
                                          _get_location_name(me.level, me.state))
            federal_progs == FederalProgs(me.level)
            merged == MergeExtracted(
                         [tbl |-> db,
                          found |-> {federal_progs[i].id : i \in 1..Len(federal_progs)},
                          result |-> federal_progs],
                         extracted, me.all_cached, me.level, me.location_key, now)
            result_programs == CarryOver(merged.result, me.all_cached, merged.found)
        IN /\ me.pc = "searching"
           /\ search_log' = Append(search_log,
                                   [government_level |-> me.level,
                                    location_key |-> me.location_key,
                                    programs_found |-> Len(extracted),
                                    searched_at |-> now])
           /\ db' = SqliteIncrementMiss(merged.tbl, me.level, me.location_key, merged.found)
           /\ wk' = [wk EXCEPT ![w] =
                       [pc |-> "done", runs |-> me.runs, level |-> me.level,
                        state |-> me.state, location_key |-> me.location_key,
                        all_cached |-> me.all_cached,
                        prev |-> me.prev,
                        extracted |-> extracted,
                        programs |-> result_programs]]
           /\ last' = [op |-> "worker_finish", worker |-> w]
           /\ UNCHANGED <<pg, now, graph, session,
                          rate_limiter, callers, sessions, roi, retry>>

(***************************************************************************)
(* The orchestrator graph: router, fan-out to the discovery nodes, join,   *)
(* validation, the two branches, the ROI cycle and the final report; and   *)
(* the session of the HTTP facade that follows the graph's event stream.   *)
(***************************************************************************)
\* Python's None: the value of a name the router did not determine
None == "None"

\* _slug(s) raises AttributeError on None (None has no lower())
SlugRaises(s) == s = None

\* the call of normalize_location raises
NormalizeLocationRaises(level, state_name, county_name, city_name) ==
    IF level = "federal" THEN FALSE
    ELSE IF level = "state" THEN SlugRaises(state_name)
    ELSE IF level = "county" THEN SlugRaises(county_name) \/ SlugRaises(state_name)
    ELSE IF level = "city" THEN SlugRaises(city_name) \/ SlugRaises(state_name)
    ELSE SlugRaises(state_name)

\* discover raises before its first await: state.get("county_name", "") is
\* None when the key is present with the value None
DiscoverRaises(level, state) ==
    NormalizeLocationRaises(level, state.state_name, state.county_name, state.city_name)

\* levels.insert(0, required) unless required is in levels
InsertRequired(levels, required) ==
    IF required \in Range(levels) THEN levels ELSE <<required>> \o levels

\* a comprehension that filters nothing
KeepAll(levels, seen) == levels

\* [l for l in levels if l not in seen and not seen.add(l)]
RECURSIVE Deduplicate(_, _)
Deduplicate(levels, seen) ==
    IF levels = <<>> THEN <<>>
    ELSE IF Head(levels) \in seen THEN Deduplicate(Tail(levels), seen)
    ELSE <<Head(levels)>> \o Deduplicate(Tail(levels), seen \cup {Head(levels)})

\* the government_levels RouterAgent.analyze returns for the list of the model
RequiredLevels(levels) ==
    Deduplicate(InsertRequired(InsertRequired(levels, "federal"), "state"), {})

\* the government_levels lists the routing model returns
LLMLevels == { <<>>, <<"county", "federal", "county">> }

\* what RouterAgent.analyze returns
RoutingResults ==
    { [government_levels |-> RequiredLevels(levels), city_name |-> None,
       county_name |-> county_name, state_name |-> "Arizona"] :
      levels \in LLMLevels, county_name \in {None, "Maricopa County"} }

\* the four levels a discovery node exists for
Levels == {"federal", "state", "county", "city"}

\* the level names the routing model answers with: the four levels and one
\* that no discovery node exists for
LevelNames == Levels \cup {"local"}

\* the longest government_levels list the routing model answers with
MaxLevels == 3

\* what the chain of the router yields: it raises, it parses to something
\* that is no dict, or it parses to a dict whose government_levels is
\* absent, null, a string, or a list of levels
LLMOutcomes ==
    {[kind |-> "raise"], [kind |-> "str"]}
    \cup {[kind |-> "dict", county_name |-> c] : c \in {None, "Maricopa County"}}
    \cup {[kind |-> "dict", county_name |-> c, government_levels |-> g] :
            c \in {None, "Maricopa County"},
            g \in {[type |-> "NoneType"], [type |-> "str", value |-> "federal"]}
                  \cup {[type |-> "list", value |-> l] :
                          l \in UNION {[1..n -> LevelNames] : n \in 0..MaxLevels}}}

\* the except branch of RouterAgent.analyze
Fallback ==
    [city_name |-> None, county_name |-> None, state_name |-> "Arizona",
     government_levels |-> <<"federal", "state">>]

\* RouterAgent.analyze on an outcome of its chain
analyze(outcome) ==
    IF outcome.kind # "dict" THEN Fallback
    ELSE LET levels == Get(outcome, "government_levels", [type |-> "list", value |-> <<>>])
         IN [city_name |-> None,
             county_name |-> outcome.county_name,
             state_name |-> "Arizona",
             government_levels |->
                 RequiredLevels(IF levels.type = "list" THEN levels.value ELSE <<>>)]

\* the router's agent analyses one address
RouterAnalyze ==
    \E outcome \in LLMOutcomes :
        /\ last' = [op |-> "analyze", outcome |-> outcome, ret |-> analyze(outcome)]
        /\ UNCHANGED <<db, pg, now, wk, search_log, graph, session,
                       rate_limiter, callers, sessions, roi, retry>>

\* the state update router_node returns
router_node(result) ==
    [government_levels |-> result.government_levels,
     city_name |-> result.city_name,
     county_name |-> result.county_name,
     state_name |-> result.state_name,
     current_phase |-> "routing_complete"]

\* f"{level}_discovery"
DiscoveryNodeOf(level) ==
    CASE level = "city" -> "city_discovery"
      [] level = "county" -> "county_discovery"
      [] level = "state" -> "state_discovery"
      [] level = "federal" -> "federal_discovery"
      [] level = "local" -> "local_discovery"

\* the Send objects of the fan-out, one per level of government_levels
route_to_discovery(state) ==
    [i \in 1..Len(state.government_levels) |->
        [node |-> DiscoveryNodeOf(state.government_levels[i]),
         arg |-> [target_level |-> state.government_levels[i],
                  city_name |-> state.city_name,
                  county_name |-> state.county_name,
                  state_name |-> state.state_name]]]

\* a reducer that keeps the last write only
AddOverwrite(left, right) == right

\* operator.add, the reducer of the programs and errors fields
add(left, right) == left \o right

\* a record as a discovery worker returns it
WorkerRecord(name, level, location_key, confidence, description) ==
    Validated([program_name |-> name, agency |-> AgencyE, benefit_type |-> TypeOther,
               confidence |-> confidence, description |-> description,
               source_url |-> <<"e">>],
              level, location_key, "Arizona")

\* the records the workers of the model find beyond the hard-coded ones
FoundRecords(level) ==
    CASE level = "federal" ->
            { WorkerRecord(NameE_Z, "federal", "federal", "high", <<"e", "e">>) }
      [] level = "state" ->
            { WorkerRecord(NameE_Z, "state", "arizona", "medium", <<"e">>),
              WorkerRecord(NameZE, "state", "arizona", "high", <<"e", "e">>),
              WorkerRecord(<<"Z">>, "state", "arizona", "high", <<"e">>),
              WorkerRecord(<<"E">>, "state", "arizona", "high", <<"e", "e">>) }
      [] OTHER ->
            { WorkerRecord(<<"Z">>, level, "maricopa_county_arizona", "high", <<"e">>),
              WorkerRecord(NamePunct, level, "maricopa_county_arizona", "low", EMPTY) }

\* the lists of at most n records with distinct ids
ListsOf(records, n) ==
    UNION { {l \in [1..k -> records] : \A i, j \in 1..k : i # j => l[i].id # l[j].id} :
            k \in 0..n }

MaxFound(level) == IF level = "state" THEN MaxStateFound ELSE MaxLocalFound

\* the programs lists discover returns at a level: the values of
\* result_programs, the hard-coded programs first at the federal level
WorkerOutputs(level) ==
    { FederalProgs(level) \o found : found \in ListsOf(FoundRecords(level), MaxFound(level)) }

\* the initial state of run_discovery_streaming, and where the graph is
initial_state ==
    [pc |-> "router",
     government_levels |-> <<>>,
     city_name |-> None,
     county_name |-> None,
     state_name |-> "",
     programs |-> <<>>,
     merged_programs |-> <<>>,
     validated_programs |-> <<>>,
     errors |-> <<>>,
     shortlisted_programs |-> <<>>,
     roi_calculations |-> <<>>,
     notifications_sent |-> <<>>,
     current_phase |-> "started",
     sends |-> <<>>,
     pending |-> {},
     returned |-> <<>>,
     executed |-> <<>>]

AllPending == [level \in {"city", "county", "state", "federal"} |-> "pending"]

\* the session discover_incentives creates
NewSession ==
    [status |-> "started",
     current_phase |-> "Initializing",
     government_levels |-> <<>>,
     programs |-> <<>>,
     merged_programs |-> <<>>,
     validated_programs |-> <<>>,
     programs_found |-> 0,
     search_progress |-> AllPending,
     errors |-> <<>>,
     shortlisted_programs |-> <<>>,
     roi_questions |-> <<>>,
     shortlists |-> 0]

\* confidence_rank.get(prog.get("confidence", "low"), 0)
ConfidenceRank(prog) ==
    LET confidence == Get(prog, "confidence", "low")
    IN CASE confidence = "high" -> 3
         [] confidence = "medium" -> 2
         [] confidence = "low" -> 1
         [] OTHER -> 0

\* _should_replace that always takes the candidate
ShouldReplaceAlways(existing, candidate) == TRUE

\* the candidate replaces the existing record when it has the higher
\* confidence or, at the same confidence, the longer description
_should_replace(existing, candidate) ==
    IF ConfidenceRank(candidate) # ConfidenceRank(existing)
    THEN ConfidenceRank(candidate) > ConfidenceRank(existing)
    ELSE Len(Get(candidate, "description", EMPTY)) > Len(Get(existing, "description", EMPTY))

\* a guard that lets every pair of records through
AnyLevel(prog, existing) == TRUE

\* not (level != existing_level): only records of one level are compared
SameLevel(prog, existing) ==
    Get(prog, "government_level", "") = Get(existing, "government_level", "")

\* fuzz.token_set_ratio(name, existing_name) >= 90
JoinScoreReached(name, existing) ==
    ScoreLeq(<<90, 100>>,
             token_set_ratio(name, Normalized(Get(existing, "program_name", EMPTY))))

\* the inner loop of join_node: the index of the first record of
\* unique_programs at the level of prog that scores 90 or more, 0 for none
FirstDuplicate(unique_programs, prog, name) ==
    LET duplicates == {i \in 1..Len(unique_programs) :
                          /\ SameLevel(prog, unique_programs[i])
                          /\ JoinScoreReached(name, unique_programs[i])}
    IN IF duplicates = {} THEN 0
       ELSE CHOOSE i \in duplicates : \A j \in duplicates : i <= j

\* one pass of the outer loop of join_node
JoinStep(unique_programs, prog) ==
    LET name == Normalized(Get(prog, "program_name", EMPTY))
        i == FirstDuplicate(unique_programs, prog, name)
    IN IF name = EMPTY THEN unique_programs
       ELSE IF i = 0 THEN Append(unique_programs, prog)
       ELSE IF _should_replace(unique_programs[i], prog)
            THEN [unique_programs EXCEPT ![i] = prog]
            ELSE unique_programs

RECURSIVE JoinLoop(_, _)
JoinLoop(unique_programs, programs) ==
    IF programs = <<>> THEN unique_programs
    ELSE JoinLoop(JoinStep(unique_programs, Head(programs)), Tail(programs))

\* the state update join_node returns
join_node(state) ==
    [merged_programs |-> JoinLoop(<<>>, state.programs),
     current_phase |-> "join_complete"]

\* ProgramErrors without the test on the confidence
ProgramErrorsNoConfidence(prog) ==
    LET error(type) == [program |-> Get(prog, "program_name", <<"Unknown">>),
                        error_type |-> type]
    IN (IF Missing(prog, "source_url") THEN <<error("missing_url")>> ELSE <<>>)
       \o (IF Missing(prog, "program_name") THEN <<error("missing_program_name")>> ELSE <<>>)
       \o (IF Missing(prog, "agency") THEN <<error("missing_agency")>> ELSE <<>>)
       \o (IF Missing(prog, "benefit_type") THEN <<error("missing_benefit_type")>> ELSE <<>>)

\* the error records error_checker_node finds on one program
ProgramErrors(prog) ==
    LET error(type) == [program |-> Get(prog, "program_name", <<"Unknown">>),
                        error_type |-> type]
    IN (IF Missing(prog, "source_url") THEN <<error("missing_url")>> ELSE <<>>)
       \o (IF Get(prog, "confidence", "") = "low" THEN <<error("low_confidence")>> ELSE <<>>)
       \o (IF Missing(prog, "program_name") THEN <<error("missing_program_name")>> ELSE <<>>)
       \o (IF Missing(prog, "agency") THEN <<error("missing_agency")>> ELSE <<>>)
       \o (IF Missing(prog, "benefit_type") THEN <<error("missing_benefit_type")>> ELSE <<>>)

RECURSIVE Flatten(_)
Flatten(lists) == IF lists = <<>> THEN <<>> ELSE Head(lists) \o Flatten(Tail(lists))

\* the state update error_checker_node returns
error_checker_node(state) ==
    LET merged == state.merged_programs
    IN [validated_programs |->
            [i \in 1..Len(merged) |->
                [validated |-> ProgramErrors(merged[i]) = <<>>,
                 validation_errors |-> ProgramErrors(merged[i])] @@ merged[i]],
        errors |-> Flatten([i \in 1..Len(merged) |-> ProgramErrors(merged[i])]),
        current_phase |-> "validation_complete"]

\* both branches, for parallel execution
should_branch(state) == {"admin_notify", "await_shortlist"}

admin_notify_node(state) ==
    [notifications_sent |-> <<"admin_dashboard", "discovery_log">>]

\* returns at once, with the shortlist the state already holds
await_shortlist_node(state) ==
    [shortlisted_programs |-> state.shortlisted_programs,
     current_phase |-> "awaiting_shortlist"]

\* one calculation per shortlisted program
roi_analyzer_node(state) ==
    [roi_calculations |->
        [i \in 1..Len(state.shortlisted_programs) |->
            [program_id |-> state.shortlisted_programs[i].id,
             program_name |-> state.shortlisted_programs[i].program_name]]]

final_report_node(state) == [current_phase |-> "complete"]

level_map ==
    [city_discovery |-> "city", county_discovery |-> "county",
     state_discovery |-> "state", federal_discovery |-> "federal"]

\* the body of the event loop of run_discovery_workflow for one event
\* {node_name: node_output}
OnEvent(s, node_name, node_output) ==
    LET has(key) == key \in DOMAIN node_output
        phase == IF has("current_phase") THEN node_output.current_phase ELSE ""
        levels == IF has("government_levels") THEN node_output.government_levels
                  ELSE s.government_levels
        programs == IF has("programs") THEN s.programs \o node_output.programs
                    ELSE s.programs
        level_done == IF node_name \in DOMAIN level_map
                      THEN {level_map[node_name]} ELSE {}
        progress == [level \in DOMAIN s.search_progress |->
                        IF level \in level_done
                           \/ (phase = "awaiting_shortlist" /\ level \in Range(levels))
                        THEN "completed"
                        ELSE IF has("government_levels") /\ level \in Range(levels)
                        THEN "pending"
                        ELSE s.search_progress[level]]
        status ==
            IF phase \in {"awaiting_shortlist", "complete"} THEN "completed"
            ELSE IF has("validated_programs") THEN "validating"
            ELSE IF has("merged_programs") THEN "merging"
            ELSE IF level_done # {}
            THEN (IF \A level \in Range(levels) : progress[level] = "completed"
                  THEN "merging" ELSE "searching")
            ELSE IF has("government_levels") THEN "discovering"
            ELSE s.status
    IN [s EXCEPT
          !.current_phase = IF has("current_phase") THEN phase ELSE @,
          !.government_levels = levels,
          !.programs = programs,
          !.merged_programs = IF has("merged_programs")
                              THEN node_output.merged_programs ELSE @,
          !.validated_programs = IF has("validated_programs")
                                 THEN node_output.validated_programs ELSE @,
          !.programs_found = IF has("merged_programs")
                             THEN Len(node_output.merged_programs)
                             ELSE IF has("programs") /\ node_output.programs # <<>>
                             THEN Len(programs) ELSE @,
          !.errors = IF has("errors") THEN @ \o node_output.errors ELSE @,
          !.search_progress = progress,
          !.status = status]

\* the except branch of run_discovery_workflow
OnException(s) == [s EXCEPT !.status = "failed"]

\* the router runs; the conditional edge creates the sends of the fan-out
RouterNode ==
    \E result \in RoutingResults :
        LET node_output == router_node(result)
            sends == route_to_discovery(node_output)
        IN /\ graph.pc = "router"
           /\ graph' = [graph EXCEPT
                          !.executed = Append(@, "router"),
                          !.government_levels = node_output.government_levels,
                          !.city_name = node_output.city_name,
                          !.county_name = node_output.county_name,
                          !.state_name = node_output.state_name,
                          !.current_phase = node_output.current_phase,
                          !.sends = sends,
                          !.pending = DOMAIN sends,
                          !.pc = "discovery"]
           /\ session' = OnEvent(session, "router", node_output)
           /\ last' = [op |-> "router"]
           /\ UNCHANGED <<db, pg, now, wk, search_log,
                          rate_limiter, callers, sessions, roi, retry>>

\* a discovery node returns: its programs are added to the programs field
DiscoveryNode ==
    /\ graph.pc = "discovery"
    /\ \E i \in graph.pending :
      \E programs \in WorkerOutputs(graph.sends[i].arg.target_level) :
        LET send == graph.sends[i]
            node_output == [programs |-> programs,
                            current_level |-> send.arg.target_level]
        IN /\ graph.pending # {}
           /\ ~DiscoverRaises(send.arg.target_level, send.arg)
           /\ graph' = [graph EXCEPT
                          !.executed = Append(@, send.node),
                          !.programs = add(@, node_output.programs),
                          !.pending = @ \ {i},
                          !.returned = Append(@, [send |-> i, programs |-> programs]),
                          !.pc = IF graph.pending = {i} THEN "join" ELSE @]
           /\ session' = OnEvent(session, send.node, node_output)
           /\ last' = [op |-> "discovery", send |-> i]
           /\ UNCHANGED <<db, pg, now, wk, search_log,
                          rate_limiter, callers, sessions, roi, retry>>

\* a discovery node raises: the exception leaves the graph's stream and is
\* caught by run_discovery_workflow
DiscoveryRaises ==
    /\ graph.pc = "discovery"
    /\ \E i \in graph.pending :
        /\ graph.pending # {}
        /\ DiscoverRaises(graph.sends[i].arg.target_level, graph.sends[i].arg)
        /\ graph' = [graph EXCEPT !.pc = "raised"]
        /\ session' = OnException(session)
        /\ last' = [op |-> "discovery_raises", send |-> i]
        /\ UNCHANGED <<db, pg, now, wk, search_log,
                       rate_limiter, callers, sessions, roi, retry>>

JoinNode ==
    LET node_output == join_node(graph)
    IN /\ graph.pc = "join"
       /\ graph' = [graph EXCEPT
                      !.executed = Append(@, "join"),
                      !.merged_programs = node_output.merged_programs,
                      !.current_phase = node_output.current_phase,
                      !.pc = "error_checker"]
       /\ session' = OnEvent(session, "join", node_output)
       /\ last' = [op |-> "join"]
       /\ UNCHANGED <<db, pg, now, wk, search_log,
                      rate_limiter, callers, sessions, roi, retry>>

ErrorCheckerNode ==
    LET node_output == error_checker_node(graph)
    IN /\ graph.pc = "error_checker"
       /\ graph' = [graph EXCEPT
                      !.executed = Append(@, "error_checker"),
                      !.validated_programs = node_output.validated_programs,
                      !.errors = add(@, node_output.errors),
                      !.current_phase = node_output.current_phase,
                      !.pending = should_branch(graph),
                      !.pc = "branch"]
       /\ session' = OnEvent(session, "error_checker", node_output)
       /\ last' = [op |-> "error_checker"]
       /\ UNCHANGED <<db, pg, now, wk, search_log,
                      rate_limiter, callers, sessions, roi, retry>>

\* the step after both branches is the ROI cycle, on the edge from
\* await_shortlist
AfterBranch(node) == IF graph.pending = {node} THEN "roi_cycle" ELSE "branch"

AdminNotifyNode ==
    LET node_output == admin_notify_node(graph)
    IN /\ graph.pc = "branch"
       /\ "admin_notify" \in graph.pending
       /\ graph' = [graph EXCEPT
                      !.executed = Append(@, "admin_notify"),
                      !.notifications_sent = node_output.notifications_sent,
                      !.pending = @ \ {"admin_notify"},
                      !.pc = AfterBranch("admin_notify")]
       /\ session' = OnEvent(session, "admin_notify", node_output)
       /\ last' = [op |-> "admin_notify"]
       /\ UNCHANGED <<db, pg, now, wk, search_log,
                      rate_limiter, callers, sessions, roi, retry>>

AwaitShortlistNode ==
    LET node_output == await_shortlist_node(graph)
    IN /\ graph.pc = "branch"
       /\ "await_shortlist" \in graph.pending
       /\ graph' = [graph EXCEPT
                      !.executed = Append(@, "await_shortlist"),
                      !.shortlisted_programs = node_output.shortlisted_programs,
                      !.current_phase = node_output.current_phase,
                      !.pending = @ \ {"await_shortlist"},
                      !.pc = AfterBranch("await_shortlist")]
       /\ session' = OnEvent(session, "await_shortlist", node_output)
       /\ last' = [op |-> "await_shortlist"]
       /\ UNCHANGED <<db, pg, now, wk, search_log,
                      rate_limiter, callers, sessions, roi, retry>>

\* the ROI subgraph runs: its analyzer goes over the shortlist of the state
RoiCycleNode ==
    LET node_output == roi_analyzer_node(graph)
    IN /\ graph.pc = "roi_cycle"
       /\ graph' = [graph EXCEPT
                      !.executed = Append(@, "roi_cycle"),
                      !.roi_calculations = node_output.roi_calculations,
                      !.pc = "final_report"]
       /\ session' = OnEvent(session, "roi_cycle", node_output)
       /\ last' = [op |-> "roi_cycle"]
       /\ UNCHANGED <<db, pg, now, wk, search_log,
                      rate_limiter, callers, sessions, roi, retry>>

FinalReportNode ==
    LET node_output == final_report_node(graph)
    IN /\ graph.pc = "final_report"
       /\ graph' = [graph EXCEPT
                      !.executed = Append(@, "final_report"),
                      !.current_phase = node_output.current_phase,
                      !.pc = "end"]
       /\ session' = OnEvent(session, "final_report", node_output)
       /\ last' = [op |-> "final_report"]
       /\ UNCHANGED <<db, pg, now, wk, search_log,
                      rate_limiter, callers, sessions, roi, retry>>

\* validated_programs or merged_programs or programs
AllPrograms(s) ==
    IF s.validated_programs # <<>> THEN s.validated_programs
    ELSE IF s.merged_programs # <<>> THEN s.merged_programs
    ELSE s.programs

\* the program_ids of the requests of the model: nothing, or the first
\* program the session shows
ShortlistRequests(s) ==
    {{}} \cup {{AllPrograms(s)[i].id} : i \in DOMAIN AllPrograms(s) \cap {1}}

\* [p for p in all_programs if p.get("id") in request.program_ids]
RECURSIVE Shortlisted(_, _)
Shortlisted(all_programs, program_ids) ==
    IF all_programs = <<>> THEN <<>>
    ELSE (IF Head(all_programs).id \in program_ids THEN <<Head(all_programs)>> ELSE <<>>)
         \o Shortlisted(Tail(all_programs), program_ids)

TypeWage == <<"w">>

\* the initial ROI questions of one shortlisted program
ProgramQuestions(prog) ==
    <<[id |-> <<prog.id, "num_hires">>, program_id |-> prog.id, type |-> "number"]>>
    \o (IF Get(prog, "benefit_type", EMPTY) = TypeWage
        THEN <<[id |-> <<prog.id, "avg_wage">>, program_id |-> prog.id, type |-> "currency"]>>
        ELSE <<>>)

InitialQuestions(shortlisted) ==
    Flatten([i \in 1..Len(shortlisted) |-> ProgramQuestions(shortlisted[i])])

\* POST /incentives/{session_id}/shortlist
SubmitShortlist ==
    \E program_ids \in ShortlistRequests(session) :
        /\ session.shortlists < MaxShortlists
        /\ session' = [session EXCEPT
                         !.shortlisted_programs = Shortlisted(AllPrograms(session), program_ids),
                         !.status = "roi_cycle",
                         !.roi_questions = InitialQuestions(Shortlisted(AllPrograms(session),
                                                                        program_ids)),
                         !.shortlists = @ + 1]
        /\ last' = [op |-> "submit_shortlist", program_ids |-> program_ids]
        /\ UNCHANGED <<db, pg, now, wk, search_log, graph,
                       rate_limiter, callers, sessions, roi, retry>>

(***************************************************************************)
(* The cache API on the embedded back-end.  `last` records the latest call *)
(* and what it returned.                                                   *)
(***************************************************************************)
CanDiscover(tbl, k) == k \in DOMAIN tbl => tbl[k].discovery_count < MaxDisc

Upsert ==
    \E c \in UpsertCalls :
        LET program == c[1]
            level == c[2][1]
            location_key == c[2][2]
            key == CacheKey(program, level, location_key)
        IN /\ CanDiscover(db, key)
           /\ db' = _sqlite_upsert_program(db, program, level, location_key, now)
           /\ last' = [op |-> "upsert", program |-> program, level |-> level,
                       location_key |-> location_key, ret |-> key,
                       missed |-> IF key \in DOMAIN db THEN db[key].miss_count ELSE -1]
           /\ UNCHANGED <<pg, now, wk, search_log, graph, session,
                          rate_limiter, callers, sessions, roi, retry>>

Confirm ==
    \E key \in AllKeys :
        /\ CanDiscover(db, key)
        /\ db' = SqliteConfirm(db, key, now)
        /\ last' = [op |-> "confirm", key |-> key]
        /\ UNCHANGED <<pg, now, wk, search_log, graph, session,
                       rate_limiter, callers, sessions, roi, retry>>

IncrementMiss ==
    \E part \in Partitions :
      \E found_keys \in SUBSET {k \in DOMAIN db : k[2] = part[1] /\ k[3] = part[2]} :
        /\ \A k \in DOMAIN db : db[k].miss_count < MaxMiss
        /\ db' = SqliteIncrementMiss(db, part[1], part[2], found_keys)
        /\ last' = [op |-> "increment_miss", level |-> part[1],
                    location_key |-> part[2], found_keys |-> found_keys]
        /\ UNCHANGED <<pg, now, wk, search_log, graph, session,
                       rate_limiter, callers, sessions, roi, retry>>

GetCached ==
    \E part \in Partitions, ttl_days \in TTLs :
        /\ last' = [op |-> "get_cached", level |-> part[1], location_key |-> part[2],
                    ttl_days |-> ttl_days,
                    ret |-> AsSets(_sqlite_get_cached_programs(db, part[1], part[2], ttl_days, now))]
        /\ UNCHANGED <<db, pg, now, wk, search_log, graph, session,
                       rate_limiter, callers, sessions, roi, retry>>

(***************************************************************************)
(* The rate limiter (src/src/core/rate_limiter.py) with concurrent         *)
(* callers, and the /discover endpoint with its background workflows.      *)
(***************************************************************************)
\* the settings of the deployment: the ceilings of src/core/config.py
max_concurrent_sessions == 1
max_sessions_per_day == 2
max_exa_queries_per_session == 1
max_llm_calls_per_session == 1

\* the threads that call the limiter concurrently
NumCallers == 2
Callers == 1..NumCallers

\* the sessions one caller starts
MaxStarts == 2

\* the /discover calls of a run
MaxDiscoverCalls == 3

\* RateLimiter.__init__: date.today() is the day the clock shows
RateLimiter ==
    [_active_sessions |-> {}, _daily_sessions |-> 0, _daily_date |-> 0,
     _session_counters |-> <<>>]

\* _reset_daily_if_needed
_reset_daily_if_needed(self, today) ==
    IF today # self._daily_date
    THEN [self EXCEPT !._daily_date = today, !._daily_sessions = 0]
    ELSE self

\* can_start_session, under the lock: the limiter after the call and the
\* (allowed, reason) pair
can_start_session(self, today) ==
    LET reset == _reset_daily_if_needed(self, today)
    IN [self |-> reset,
        ret |-> IF Cardinality(reset._active_sessions) >= max_concurrent_sessions
                THEN <<FALSE, "Max concurrent sessions reached">>
                ELSE IF reset._daily_sessions >= max_sessions_per_day
                THEN <<FALSE, "Daily session limit reached">>
                ELSE <<TRUE, "">>]

\* d.pop(k, None) on a dict
Pop(d, k) == [x \in DOMAIN d \ {k} |-> d[x]]

\* start_session, under the lock
start_session(self, today, session_id) ==
    LET reset == _reset_daily_if_needed(self, today)
    IN [reset EXCEPT
          !._active_sessions = @ \cup {session_id},
          !._daily_sessions = @ + 1,
          !._session_counters = Put(@, session_id, [exa |-> 0, llm |-> 0])]

\* end_session, under the lock
end_session(self, session_id) ==
    [self EXCEPT !._active_sessions = @ \ {session_id},
                 !._session_counters = Pop(@, session_id)]

\* the ceiling of a per-session counter
CeilingOf(counter) ==
    IF counter = "exa" THEN max_exa_queries_per_session ELSE max_llm_calls_per_session

\* check_exa and check_llm, under the lock: (allowed, reason)
check(self, session_id, counter) ==
    IF session_id \notin DOMAIN self._session_counters THEN <<TRUE, "">>
    ELSE IF self._session_counters[session_id][counter] >= CeilingOf(counter)
    THEN <<FALSE, "limit reached for this session">>
    ELSE <<TRUE, "">>

\* increment_exa and increment_llm, under the lock
increment(self, session_id, counter) ==
    IF session_id \in DOMAIN self._session_counters
    THEN [self EXCEPT !._session_counters[session_id][counter] = @ + 1]
    ELSE self

\* a caller between two calls of the limiter
IdleCaller == [pc |-> "idle", starts |-> 0]

\* a caller asks whether a session may start
CanStartSession(c) ==
    LET call == can_start_session(rate_limiter, now)
    IN /\ callers[c].pc = "idle"
       /\ callers[c].starts < MaxStarts
       /\ rate_limiter' = call.self
       /\ callers' = [callers EXCEPT ![c].pc = IF call.ret[1] THEN "may_start" ELSE "idle"]
       /\ last' = [op |-> "can_start_session", caller |-> c, ret |-> call.ret]
       /\ UNCHANGED <<db, pg, now, wk, search_log, graph, session, sessions, roi, retry>>

\* a caller that was allowed registers its session, named by a fresh id
StartSession(c) ==
    LET session_id == <<c, callers[c].starts + 1>>
    IN /\ callers[c].pc = "may_start"
       /\ rate_limiter' = start_session(rate_limiter, now, session_id)
       /\ callers' = [callers EXCEPT ![c] = [pc |-> "idle", starts |-> @.starts + 1]]
       /\ last' = [op |-> "start_session", caller |-> c, session_id |-> session_id]
       /\ UNCHANGED <<db, pg, now, wk, search_log, graph, session, sessions, roi, retry>>

\* a caller ends an active session
EndSession(c) ==
    \E session_id \in rate_limiter._active_sessions :
        /\ callers[c].pc = "idle"
        /\ rate_limiter' = end_session(rate_limiter, session_id)
        /\ last' = [op |-> "end_session", caller |-> c, session_id |-> session_id]
        /\ UNCHANGED <<db, pg, now, wk, search_log, graph, session, callers, sessions,
                       roi, retry>>

\* a caller working for a started session asks whether it may make another
\* search or LLM call
Check(c) ==
    \E session_id \in rate_limiter._active_sessions, counter \in {"exa", "llm"} :
        LET ret == check(rate_limiter, session_id, counter)
        IN /\ callers[c].pc = "idle"
           /\ callers' = [callers EXCEPT ![c] =
                            IF ret[1]
                            THEN [pc |-> "may_call", starts |-> @.starts,
                                  session_id |-> session_id, counter |-> counter]
                            ELSE @]
           /\ last' = [op |-> "check", caller |-> c, session_id |-> session_id,
                       counter |-> counter, ret |-> ret]
           /\ UNCHANGED <<db, pg, now, wk, search_log, graph, session, rate_limiter,
                          sessions, roi, retry>>

\* a caller that was allowed has made its call and records it
Increment(c) ==
    /\ callers[c].pc = "may_call"
    /\ rate_limiter' = increment(rate_limiter, callers[c].session_id, callers[c].counter)
    /\ callers' = [callers EXCEPT ![c] = [pc |-> "idle", starts |-> @.starts]]
    /\ last' = [op |-> "increment", caller |-> c, session_id |-> callers[c].session_id,
                counter |-> callers[c].counter]
    /\ UNCHANGED <<db, pg, now, wk, search_log, graph, session, sessions, roi, retry>>

\* the sessions dict of the API and the background tasks, before any call
NoSessions == [store |-> <<>>, tasks |-> <<>>]

\* the session discover_incentives stores
StoredSession(use_demo) ==
    [f \in DOMAIN NewSession \cup {"demo_mode"} |->
        IF f = "demo_mode" THEN use_demo ELSE NewSession[f]]

\* POST /incentives/discover: the session is stored and its workflow is
\* added to the background tasks; the handler makes no call of the limiter
discover_incentives ==
    \E use_demo \in BOOLEAN :
        LET session_id == Len(sessions.tasks) + 1
        IN /\ Len(sessions.tasks) < MaxDiscoverCalls
           /\ sessions' = [store |-> Put(sessions.store, session_id, StoredSession(use_demo)),
                           tasks |-> Append(sessions.tasks,
                                            IF use_demo THEN "run_demo_workflow"
                                            ELSE "run_discovery_workflow")]
           /\ last' = [op |-> "discover",
                       response |-> [session_id |-> session_id, status |-> "started",
                                     message |-> IF use_demo THEN "Demo discovery started"
                                                 ELSE "Discovery started"]]
           /\ UNCHANGED <<db, pg, now, wk, search_log, graph, session, rate_limiter,
                          callers, roi, retry>>

\* the statuses after which a workflow makes no further step
Finished == {"completed", "failed"}

\* a background workflow starts: session["status"] = "routing"
WorkflowStarts ==
    \E session_id \in DOMAIN sessions.store :
        /\ sessions.store[session_id].status = "started"
        /\ sessions' = [sessions EXCEPT !.store[session_id].status = "routing"]
        /\ last' = [op |-> "workflow_starts", session_id |-> session_id]
        /\ UNCHANGED <<db, pg, now, wk, search_log, graph, session, rate_limiter,
                       callers, roi, retry>>

\* a background workflow ends, completed or failed
WorkflowEnds ==
    \E session_id \in DOMAIN sessions.store, status \in Finished :
        /\ sessions.store[session_id].status = "routing"
        /\ sessions' = [sessions EXCEPT !.store[session_id].status = status]
        /\ last' = [op |-> "workflow_ends", session_id |-> session_id]
        /\ UNCHANGED <<db, pg, now, wk, search_log, graph, session, rate_limiter,
                       callers, roi, retry>>

(***************************************************************************)
(* The ROI refinement cycle (src/src/agents/roi_cycle.py): the subgraph    *)
(* roi_analyzer -> question_generator -> refinement -> continue or exit.   *)
(***************************************************************************)
\* settings.max_roi_refinement_rounds
max_roi_refinement_rounds == 3

\* the times the cycle is entered in a run
MaxCycles == 1

\* pat in s
Contains(s, pat) ==
    \E i \in 1..(Len(s) - Len(pat) + 1) : SubSeq(s, i, i + Len(pat) - 1) = pat

\* \d
IsDigit(c) == c \in {"0", "1", "2", "3", "4", "5", "6", "7", "8", "9"}

DigitValue(c) ==
    CHOOSE n \in 0..9 : <<"0", "1", "2", "3", "4", "5", "6", "7", "8", "9">>[n + 1] = c

\* [\d,]
IsAmountChar(c) == IsDigit(c) \/ c = ","

\* the positions where a run of digits and commas starts, and where one ends
AmountStarts(s) ==
    {i \in 1..Len(s) : IsAmountChar(s[i]) /\ (i = 1 \/ ~IsAmountChar(s[i - 1]))}

AmountEnds(s) ==
    {i \in 1..Len(s) : IsAmountChar(s[i]) /\ (i = Len(s) \/ ~IsAmountChar(s[i + 1]))}

\* the k-th number of a set of numbers, in increasing order
Nth(S, k) == CHOOSE x \in S : Cardinality({y \in S : y < x}) = k - 1

\* re.findall(r'\$?([\d,]+)', s): the maximal runs of digits and commas
FindAmounts(s) ==
    [k \in 1..Cardinality(AmountStarts(s)) |->
        SubSeq(s, Nth(AmountStarts(s), k), Nth(AmountEnds(s), k))]

\* v.replace(",", "")
RemoveCommas(v) == SelectSeq(v, LAMBDA c : c # ",")

\* int() of the first n digits of a string of digits
RECURSIVE IntUpTo(_, _)
IntUpTo(d, n) == IF n = 0 THEN 0 ELSE 10 * IntUpTo(d, n - 1) + DigitValue(d[n])

\* int() of a string of digits
IntOfDigits(d) == IntUpTo(d, Len(d))

\* int(v.replace(",", "")) raises ValueError on a run of commas only
AmountRaises(v) == RemoveCommas(v) = <<>>

\* the sum of the first n amounts
RECURSIVE SumUpTo(_, _)
SumUpTo(values, n) ==
    IF n = 0 THEN 0 ELSE SumUpTo(values, n - 1) + IntOfDigits(RemoveCommas(values[n]))

\* sum(int(v.replace(",", "")) for v in values)
SumAmounts(values) == SumUpTo(values, Len(values))

\* what the user answered: a JSON number or a JSON string
Number(n) == [type |-> "int", value |-> n]
Text(t) == [type |-> "str", value |-> t]

\* the truth value of an answer: 0 and "" are false
Truthy(v) == IF v.type = "int" THEN v.value # 0 ELSE v.value # <<>>

\* int(v) raises ValueError on a string that is no number
IntRaises(v) == v.type = "str" /\ (v.value = <<>> \/ \E i \in 1..Len(v.value) : ~IsDigit(v.value[i]))

\* int(v)
IntOf(v) == IF v.type = "int" THEN v.value ELSE IntOfDigits(v.value)

\* format(x, ",.0f") of n / d rounds to the nearest integer, halves to even
RoundHalfEven(n, d) ==
    LET q == n \div d
        r == n % d
    IN IF 2 * r > d THEN q + 1
       ELSE IF 2 * r = d THEN q + (q % 2)
       ELSE q

\* question ids and answer keys: f"{prog_id}_{dimension}" is the pair of the
\* program id and the dimension; the ids are hashes of one length, so one
\* id occurs in the key of another program only when the two are equal
QuestionId(prog_id, dimension) == <<prog_id, dimension>>

\* {k: v for k, v in answers.items() if prog_id in k}
ProgAnswers(answers, prog_id) ==
    [k \in {x \in DOMAIN answers : x[1] = prog_id} |-> answers[k]]

\* texts of needs_more_info
InfoHires == <<"H", "i", "r", "e", "s">>
InfoWage == <<"w", "a", "g", "e">>
InfoRisk == <<"r", "i", "s", "k">>

\* texts of estimated_value_per_hire
ValueRange == <<"$", "2", ",", "4", "0", "0", " ", "-", " ", "$", "9", ",", "6", "0", "1">>
ValueNone == <<"n", "o", "n", "e">>
ValueComma == <<"$", ",">>

\* what the chain of ROIAnalyzer.analyze yields for one program
LLMAnalyses ==
    { [kind |-> "raise"],
      [kind |-> "dict", estimated_value_per_hire |-> ValueRange,
       needs_more_info |-> <<InfoHires, InfoWage>>],
      [kind |-> "dict", estimated_value_per_hire |-> ValueComma,
       needs_more_info |-> <<InfoRisk>>],
      [kind |-> "dict", estimated_value_per_hire |-> ValueNone, needs_more_info |-> <<>>] }

\* ROIAnalyzer.analyze
ROIAnalyzer_analyze(program, response) ==
    IF response.kind = "dict"
    THEN [program_id |-> program.id, program_name |-> program.program_name,
          estimated_value_per_hire |-> response.estimated_value_per_hire,
          needs_more_info |-> response.needs_more_info,
          needs_refinement |-> Len(response.needs_more_info) > 0]
    ELSE [program_id |-> program.id, program_name |-> program.program_name,
          error |-> "error", needs_refinement |-> TRUE]

\* roi_analyzer that stops at the first program whose analysis failed
RoiAnalyzerStopsAtFailure(state, responses) ==
    LET failed == {i \in 1..Len(responses) : responses[i].kind # "dict"}
        n == IF failed = {} THEN Len(responses)
             ELSE (CHOOSE i \in failed : \A j \in failed : i <= j) - 1
    IN [roi_calculations |->
           [i \in 1..n |-> ROIAnalyzer_analyze(state.shortlisted_programs[i], responses[i])]]

\* roi_analyzer_node of the subgraph, given the chain's yield per program
roi_analyzer(state, responses) ==
    [roi_calculations |->
        [i \in 1..Len(state.shortlisted_programs) |->
            ROIAnalyzer_analyze(state.shortlisted_programs[i], responses[i])]]

\* the question of one needs_more_info text, none when no keyword is in it
InfoQuestions(prog_id, info) ==
    IF Contains(Lower(info), <<"h", "i", "r", "e">>)
       \/ Contains(Lower(info), <<"e", "m", "p", "l", "o", "y", "e", "e">>)
    THEN << [program_id |-> prog_id, question_id |-> QuestionId(prog_id, "num_hires"),
             type |-> "number", required |-> TRUE] >>
    ELSE IF Contains(Lower(info), <<"w", "a", "g", "e">>)
            \/ Contains(Lower(info), <<"s", "a", "l", "a", "r", "y">>)
    THEN << [program_id |-> prog_id, question_id |-> QuestionId(prog_id, "avg_wage"),
             type |-> "currency", required |-> TRUE] >>
    ELSE IF Contains(Lower(info), <<"r", "e", "t", "e", "n", "t", "i", "o", "n">>)
    THEN << [program_id |-> prog_id, question_id |-> QuestionId(prog_id, "retention"),
             type |-> "percentage", required |-> FALSE] >>
    ELSE <<>>

\* the questions of one calculation
CalcQuestions(calc) ==
    LET needs_info == Get(calc, "needs_more_info", <<>>)
    IN IF ~calc.needs_refinement THEN <<>>
       ELSE Flatten([j \in 1..Len(needs_info) |-> InfoQuestions(calc.program_id, needs_info[j])])
            \o (IF needs_info = <<>>
                THEN << [program_id |-> calc.program_id,
                         question_id |-> QuestionId(calc.program_id, "general"),
                         type |-> "number", required |-> TRUE] >>
                ELSE <<>>)

question_generator_node(state) ==
    [roi_questions |->
        Flatten([i \in 1..Len(state.roi_calculations) |->
                    CalcQuestions(state.roi_calculations[i])])]

\* total_roi of refinement_node, as the integer its format renders
TotalRoi(calc, num_hires) ==
    LET values == FindAmounts(Get(calc, "estimated_value_per_hire", <<"$", "0">>))
    IN IF values = <<>> THEN 0
       ELSE IF \E i \in 1..Len(values) : AmountRaises(values[i]) THEN 0
       ELSE IF ~Truthy(num_hires) THEN 0
       ELSE IF IntRaises(num_hires) THEN 0
       ELSE RoundHalfEven(SumAmounts(values) * IntOf(num_hires), Len(values))

\* the refined calculation of a program that has answers
Refine(calc, prog_answers) ==
    [f \in DOMAIN calc \cup {"refined_total_roi", "num_hires_used"} |->
        IF f = "refined_total_roi"
        THEN TotalRoi(calc, Get(prog_answers, QuestionId(calc.program_id, "num_hires"), Number(0)))
        ELSE IF f = "num_hires_used"
        THEN Get(prog_answers, QuestionId(calc.program_id, "num_hires"), Number(0))
        ELSE IF f = "needs_refinement" THEN FALSE
        ELSE calc[f]]

\* a round counter that stands still
RoundStays(round) == round

\* state.get("refinement_round", 0) + 1
NextRound(round) == round + 1

refinement_node(state) ==
    LET calcs == state.roi_calculations
        answered(i) == ProgAnswers(state.roi_answers, calcs[i].program_id)
        refined_calcs == [i \in 1..Len(calcs) |->
                            IF DOMAIN answered(i) # {} THEN Refine(calcs[i], answered(i))
                            ELSE calcs[i]]
        all_complete == \A i \in 1..Len(calcs) :
                            DOMAIN answered(i) # {} \/ ~calcs[i].needs_refinement
        round_num == NextRound(state.refinement_round)
    IN [roi_calculations |-> refined_calcs,
        refinement_round |-> round_num,
        is_complete |-> all_complete \/ round_num >= state.max_rounds]

should_continue_roi(state) == IF state.is_complete THEN "exit" ELSE "continue"

\* the shortlists the cycle is entered with
CycleShortlists ==
    { <<>>,
      << [id |-> "p1", program_name |-> NameEZ] >>,
      << [id |-> "p1", program_name |-> NameEZ], [id |-> "p2", program_name |-> NameZE] >> }

\* the answers the cycle is entered with
CycleAnswers ==
    { <<>>,
      (QuestionId("p1", "num_hires") :> Number(0)),
      (QuestionId("p1", "num_hires") :> Number(2)),
      (QuestionId("p1", "num_hires") :> Text(<<"x">>)),
      (QuestionId("p1", "avg_wage") :> Number(20)),
      (QuestionId("p1", "num_hires") :> Text(<<"3">>))
          @@ (QuestionId("p2", "num_hires") :> Number(0)) }

\* the ROI cycle before it is entered
IdleCycle == [pc |-> "idle", cycles |-> 0]

\* the subgraph is entered: the state it gets has the round of initial_state
\* and no max_rounds, which refinement_node reads from the settings
RoiEnter ==
    \E shortlisted \in CycleShortlists, answers \in CycleAnswers :
        /\ roi.pc \in {"idle", "exit"}
        /\ roi.cycles < MaxCycles
        /\ roi' = [pc |-> "roi_analyzer", cycles |-> roi.cycles + 1,
                   shortlisted_programs |-> shortlisted,
                   roi_questions |-> <<>>, roi_answers |-> answers,
                   roi_calculations |-> <<>>, refinement_round |-> 0,
                   is_complete |-> FALSE, max_rounds |-> max_roi_refinement_rounds]
        /\ last' = [op |-> "roi_enter"]
        /\ UNCHANGED <<db, pg, now, wk, search_log, graph, session,
                       rate_limiter, callers, sessions, retry>>

RoiAnalyzer ==
    /\ roi.pc = "roi_analyzer"
    /\ \E responses \in [1..Len(roi.shortlisted_programs) -> LLMAnalyses] :
        /\ roi' = [roi EXCEPT
                     !.roi_calculations = roi_analyzer(roi, responses).roi_calculations,
                     !.pc = "question_generator"]
        /\ last' = [op |-> "roi_analyzer", responses |-> responses]
        /\ UNCHANGED <<db, pg, now, wk, search_log, graph, session,
                       rate_limiter, callers, sessions, retry>>

QuestionGenerator ==
    /\ roi.pc = "question_generator"
    /\ roi' = [roi EXCEPT !.roi_questions = question_generator_node(roi).roi_questions,
                          !.pc = "refinement"]
    /\ last' = [op |-> "question_generator"]
    /\ UNCHANGED <<db, pg, now, wk, search_log, graph, session,
                   rate_limiter, callers, sessions, retry>>

\* refinement and the conditional edge after it
Refinement ==
    LET node_output == refinement_node(roi)
        after == [roi EXCEPT !.roi_calculations = node_output.roi_calculations,
                             !.refinement_round = node_output.refinement_round,
                             !.is_complete = node_output.is_complete]
    IN /\ roi.pc = "refinement"
       /\ roi' = [after EXCEPT !.pc = IF should_continue_roi(after) = "exit"
                                      THEN "exit" ELSE "roi_analyzer"]
       /\ last' = [op |-> "refinement"]
       /\ UNCHANGED <<db, pg, now, wk, search_log, graph, session,
                      rate_limiter, callers, sessions, retry>>

(***************************************************************************)
(* The API-level ROI calculator: POST /incentives/{session_id}/roi-answers *)
(* (src/src/api/routes/incentives.py, submit_roi_answers).  Amounts are    *)
(* rationals <<numerator, denominator>>.                                   *)
(***************************************************************************)
\* texts of benefit_type
TaxCredit == <<"t", "a", "x", "_", "c", "r", "e", "d", "i", "t">>
WageSubsidy == <<"w", "a", "g", "e", "_", "s", "u", "b", "s", "i", "d", "y">>
TrainingGrant == <<"t", "r", "a", "i", "n", "i", "n", "g", "_", "g", "r", "a", "n", "t">>
OtherBenefit == <<"o", "t", "h", "e", "r">>
Bonding == <<"b", "o", "n", "d", "i", "n", "g">>

\* texts of max_value
Varies == <<"V", "a", "r", "i", "e", "s">>
VariesByProgram == <<"V", "a", "r", "i", "e", "s", " ", "b", "y", " ", "p", "r", "o", "g", "r", "a", "m">>
ZeroDollars == <<"$", "0">>
FidelityBond == <<"B", "o", "n", "d">>
Withholding == <<"W", "i", "t", "h", "h", "o", "l", "d", "i", "n", "g">>
BigValue == <<"$", "3", "0", ",", "0", "0", "0">>

non_monetary_keywords ==
    { <<"b", "o", "n", "d">>,
      <<"b", "o", "n", "d", "i", "n", "g">>,
      <<"f", "i", "d", "e", "l", "i", "t", "y">>,
      <<"c", "o", "v", "e", "r", "a", "g", "e">>,
      <<"b", "u", "i", "l", "d", "i", "n", "g", " ", "i", "m", "p", "r", "o", "v", "e", "m", "e", "n", "t", "s">>,
      <<"c", "a", "p", "i", "t", "a", "l">>,
      <<"c", "a", "p", "e", "x">>,
      <<"a", "p", "p", "r", "e", "n", "t", "i", "c", "e", "s", "h", "i", "p", " ", "s", "t", "a", "r", "t", "-", "u", "p">>,
      <<"v", "a", "r", "i", "e", "s", " ", "b", "y", " ", "p", "r", "o", "g", "r", "a", "m">> }

\* a <= b on rationals with positive denominators
RatLeq(a, b) == a[1] * b[2] <= b[1] * a[2]

\* min(a, b)
RatMin(a, b) == IF RatLeq(a, b) THEN a ELSE b

\* float(avg_wage) raises ValueError on a string that is no number
FloatRaises(v) == IntRaises(v)

\* the per-hire value of the withholdings branch: 4% of wage * 40 * 52,
\* capped at 3000; 2000 when float(avg_wage) raises
WithholdingsValue(avg_wage) ==
    IF ~Truthy(avg_wage) THEN RatMin(<<20 * 40 * 52 * 4, 100>>, <<3000, 1>>)
    ELSE IF FloatRaises(avg_wage) THEN <<2000, 1>>
    ELSE RatMin(<<IntOf(avg_wage) * 40 * 52 * 4, 100>>, <<3000, 1>>)

\* int(v.replace(",", "")) raises for one of the amounts of max_value: the
\* handler has no try around it
ParseRaises(prog) ==
    LET max_value_str == Get(prog, "max_value", ZeroDollars)
        benefit_type == Lower(Get(prog, "benefit_type", EMPTY))
    IN /\ ~(\E k \in non_monetary_keywords : Contains(Lower(max_value_str), k))
       /\ benefit_type # Bonding
       /\ ~Contains(Lower(max_value_str), Lower(Withholding))
       /\ \E i \in 1..Len(FindAmounts(max_value_str)) :
             AmountRaises(FindAmounts(max_value_str)[i])

\* avg_value before the final fallback
ParsedValue(prog, avg_wage, is_demo) ==
    LET max_value_str == Get(prog, "max_value", ZeroDollars)
        benefit_type == Lower(Get(prog, "benefit_type", EMPTY))
        max_value_lower == Lower(max_value_str)
        is_non_monetary ==
            (\E k \in non_monetary_keywords : Contains(max_value_lower, k))
            \/ benefit_type = Bonding
        has_withholdings == Contains(max_value_lower, Lower(Withholding))
        values == FindAmounts(max_value_str)
        max_cap == IF ~is_demo THEN <<20000, 1>> ELSE <<15000, 1>>
    IN IF is_non_monetary THEN <<0, 1>>
       ELSE IF has_withholdings THEN WithholdingsValue(avg_wage)
       ELSE RatMin(IF values # <<>> THEN <<SumAmounts(values), Len(values)>>
                   ELSE <<2400, 1>>,
                   max_cap)

\* avg_value after the final fallback, which is entered for three types only
PerHireValue(prog, avg_wage, is_demo) ==
    LET avg_value == ParsedValue(prog, avg_wage, is_demo)
        benefit_type == Lower(Get(prog, "benefit_type", EMPTY))
    IN IF avg_value[1] = 0 /\ benefit_type \in {TaxCredit, WageSubsidy, TrainingGrant}
       THEN IF benefit_type = TaxCredit THEN <<2000, 1>>
            ELSE IF benefit_type = WageSubsidy THEN <<3000, 1>>
            ELSE IF benefit_type = TrainingGrant THEN <<1500, 1>>
            ELSE <<1000, 1>>
       ELSE avg_value

\* one entry of calculations
Calculation(prog, answers, is_demo) ==
    LET prog_id == Get(prog, "id", "")
        num_hires == Get(answers, QuestionId(prog_id, "num_hires"), Number(0))
        avg_wage == Get(answers, QuestionId(prog_id, "avg_wage"), Number(15))
        avg_value == PerHireValue(prog, avg_wage, is_demo)
        hires == IF ~Truthy(num_hires) THEN 0
                 ELSE IF IntRaises(num_hires) THEN 0
                 ELSE IntOf(num_hires)
    IN [program_name |-> prog.program_name,
        roi_per_hire |-> avg_value,
        number_of_hires |-> hires,
        total_roi |-> <<avg_value[1] * hires, avg_value[2]>>]

\* the programs a session has shortlisted
CalcPrograms ==
    { [id |-> "p1", program_name |-> NameEZ, max_value |-> m, benefit_type |-> b] :
        m \in {Varies, VariesByProgram, ZeroDollars, FidelityBond, Withholding, BigValue,
               ValueRange, ValueComma, EMPTY},
        b \in {TaxCredit, WageSubsidy, TrainingGrant, OtherBenefit, Bonding} }

\* a stored session after its shortlist was submitted
ShortlistedSession(shortlisted, use_demo) ==
    [f \in DOMAIN NewSession \cup {"demo_mode", "roi_answers", "roi_calculations"} |->
        IF f = "demo_mode" THEN use_demo
        ELSE IF f = "roi_answers" THEN <<>>
        ELSE IF f = "roi_calculations" THEN <<>>
        ELSE IF f = "shortlisted_programs" THEN shortlisted
        ELSE IF f = "status" THEN "roi_cycle"
        ELSE NewSession[f]]

\* the sessions dict with one session, shortlisted or not
CalcSessions ==
    { [store |-> (1 :> ShortlistedSession(shortlisted, use_demo)), tasks |-> <<>>] :
        shortlisted \in {<<>>} \cup {<<p>> : p \in CalcPrograms},
        use_demo \in BOOLEAN }

\* the answers of a request
CalcAnswers ==
    { <<>>,
      (QuestionId("p1", "num_hires") :> Number(2)),
      (QuestionId("p1", "num_hires") :> Number(0))
          @@ (QuestionId("p1", "avg_wage") :> Text(<<"x">>)),
      (QuestionId("p1", "num_hires") :> Text(<<"3">>))
          @@ (QuestionId("p1", "avg_wage") :> Number(40)) }

\* session["roi_answers"].update(request.answers)
Update(d, e) == [k \in DOMAIN d \cup DOMAIN e |-> IF k \in DOMAIN e THEN e[k] ELSE d[k]]

\* POST /incentives/{session_id}/roi-answers
submit_roi_answers ==
    \E session_id \in {1, 2}, answers \in CalcAnswers :
        /\ IF session_id \notin DOMAIN sessions.store
           THEN /\ last' = [op |-> "roi_answers", session_id |-> session_id, status |-> 404]
                /\ UNCHANGED sessions
           ELSE LET stored == sessions.store[session_id]
                    shortlisted == stored.shortlisted_programs
                    calculations ==
                        [i \in 1..Len(shortlisted) |->
                            Calculation(shortlisted[i], answers, stored.demo_mode)]
                IN IF shortlisted = <<>>
                   THEN /\ last' = [op |-> "roi_answers", session_id |-> session_id,
                                    status |-> 400]
                        /\ UNCHANGED sessions
                   ELSE IF \E i \in 1..Len(shortlisted) : ParseRaises(shortlisted[i])
                   THEN /\ last' = [op |-> "roi_answers", session_id |-> session_id,
                                    status |-> 500]
                        /\ sessions' = [sessions EXCEPT
                                          !.store[session_id].roi_answers = Update(@, answers)]
                   ELSE /\ last' = [op |-> "roi_answers", session_id |-> session_id,
                                    status |-> 200, answers |-> answers,
                                    calculations |-> calculations, is_complete |-> TRUE]
                        /\ sessions' = [sessions EXCEPT
                                          !.store[session_id].roi_answers = Update(@, answers),
                                          !.store[session_id].roi_calculations = calculations,
                                          !.store[session_id].status = "complete"]
        /\ UNCHANGED <<db, pg, now, wk, search_log, graph, session,
                       rate_limiter, callers, roi, retry>>

(***************************************************************************)
(* One search of the discovery worker with its retries                     *)
(* (GovernmentLevelDiscoveryAgent._search_with_retry).                     *)
(***************************************************************************)
MAX_RETRIES == 3

\* the searches of a run
MaxSearches == 1

\* the texts whose presence in str(e).lower() makes an error retryable
RetryTokens ==
    { <<"4", "2", "9">>,
      <<"r", "a", "t", "e">>,
      <<"l", "i", "m", "i", "t">>,
      <<"5", "0", "0">>,
      <<"5", "0", "2">>,
      <<"5", "0", "3">>,
      <<"t", "i", "m", "e", "o", "u", "t">>,
      <<"c", "o", "n", "n", "e", "c", "t", "i", "o", "n">> }

\* str(e) of the exceptions the provider raises
SearchErrors ==
    { <<"4", "2", "9">>,
      <<"t", "i", "m", "e", "o", "u", "t">>,
      <<"r", "a", "t", "e", " ", "l", "i", "m", "i", "t">>,
      <<"5", "0", "4">>,
      <<"4", "0", "1">>,
      <<"b", "a", "d", " ", "r", "e", "q", "u", "e", "s", "t">> }

is_retryable(error_str) == \E t \in RetryTokens : Contains(Lower(error_str), t)

\* one result of the provider
Hit == [url |-> <<"e">>, title |-> <<"E">>, content |-> <<"z">>]

\* what one provider call does: it answers with results, or it raises,
\* possibly after some of its results were appended
ProviderOutcomes ==
    {[kind |-> "ok", results |-> r] : r \in {<<>>, <<Hit>>}}
    \cup {[kind |-> "raise", appended |-> r, error |-> e] :
            r \in {<<>>, <<Hit>>}, e \in SearchErrors}

\* what is returned after a failure is the accumulated list
KeepResults(results) == results

\* return [] after a failure
FailureReturn(results) == <<>>

\* no search under way
IdleSearch == [pc |-> "idle", searches |-> 0]

\* _search_with_retry is called
SearchStart ==
    /\ retry.pc \in {"idle", "returned"}
    /\ retry.searches < MaxSearches
    /\ retry' = [pc |-> "attempt", searches |-> retry.searches + 1, attempt |-> 0,
                 calls |-> 0, results |-> <<>>]
    /\ last' = [op |-> "search_start"]
    /\ UNCHANGED <<db, pg, now, wk, search_log, graph, session,
                   rate_limiter, callers, sessions, roi>>

\* one pass of the loop over range(MAX_RETRIES + 1): the provider call, and
\* either the return or the sleep before the next pass
SearchAttempt ==
    \E outcome \in ProviderOutcomes :
        LET results == retry.results \o (IF outcome.kind = "ok" THEN outcome.results
                                         ELSE outcome.appended)
            returns(ret, failed) ==
                retry' = [pc |-> "returned", searches |-> retry.searches,
                          attempt |-> retry.attempt, calls |-> retry.calls + 1,
                          results |-> results, ret |-> ret, failed |-> failed]
        IN /\ retry.pc = "attempt"
           /\ IF outcome.kind = "ok" THEN returns(results, FALSE)
              ELSE IF ~is_retryable(outcome.error) \/ retry.attempt >= MAX_RETRIES
              THEN returns(FailureReturn(results), TRUE)
              ELSE IF retry.attempt + 1 > MAX_RETRIES
              THEN returns(<<>>, TRUE)
              ELSE retry' = [retry EXCEPT !.attempt = @ + 1, !.calls = @ + 1,
                                          !.results = results]
           /\ last' = [op |-> "search_attempt", outcome |-> outcome]
           /\ UNCHANGED <<db, pg, now, wk, search_log, graph, session,
                          rate_limiter, callers, sessions, roi>>

\* the state after construction, but for the graph and the sessions of the API
Constructed ==
    /\ db = <<>>
    /\ pg = <<>>
    /\ now = 0
    /\ last = [op |-> "init"]
    /\ wk = [w \in Workers |-> IdleWorker]
    /\ search_log = <<>>
    /\ session = NewSession
    /\ rate_limiter = RateLimiter
    /\ callers = [c \in Callers |-> IdleCaller]
    /\ roi = IdleCycle
    /\ retry = IdleSearch

\* the state after construction, but for the sessions of the API
Started == Constructed /\ graph = initial_state

Init == Started /\ sessions = NoSessions

\* a start with one stored session whose shortlist was submitted
InitCalc == Started /\ sessions \in CalcSessions

\* the clock that datetime.now() reads advances between calls
Tick ==
    /\ now < MaxClock
    /\ now' = now + 1
    /\ last' = [op |-> "tick"]
    /\ UNCHANGED <<db, pg, wk, search_log, graph, session,
                   rate_limiter, callers, sessions, roi, retry>>

Next == Upsert \/ Confirm \/ IncrementMiss \/ GetCached \/ Tick

Spec == Init /\ [][Next]_vars

(***************************************************************************)
(* Claims on the embedded back-end (specification Spec).                   *)
(***************************************************************************)
Ids(programs) == {p.id : p \in programs}

InPartition(row, level, location_key) ==
    row.government_level = level /\ row.location_key = location_key

\* C1: upsert(p) on an absent key inserts one row with discovery_count 1 and
\* miss_count 0; on an existing key it keeps the single row of that key, adds
\* exactly 1 to discovery_count and sets miss_count to 0; the key is the
\* program id of the normalised name in the partition of the call.
C1_UpsertCounts ==
    [][last'.op = "upsert" =>
         LET k == last'.ret
         IN /\ k = compute_program_id(Normalized(last'.program.program_name),
                                      last'.level, last'.location_key)
            /\ k \in DOMAIN db'
            /\ InPartition(db'[k], last'.level, last'.location_key)
            /\ db'[k].miss_count = 0
            /\ IF k \in DOMAIN db
               THEN /\ DOMAIN db' = DOMAIN db
                    /\ db'[k].discovery_count = db[k].discovery_count + 1
               ELSE /\ DOMAIN db' = DOMAIN db \cup {k}
                    /\ db'[k].discovery_count = 1
            /\ \A j \in DOMAIN db \ {k} : db'[j] = db[j]]_vars

\* two upserts of one program into an empty cache: one row, counts 2 and 0
C1_Witness ==
    /\ last.op = "upsert"
    /\ DOMAIN db = {last.ret}
    /\ db[last.ret].discovery_count = 2
    /\ db[last.ret].miss_count = 0

\* C3: a row upserted once and missed 3 times is excluded from get_cached of
\* its partition; one more upsert of the program makes get_cached return it
\* again; no step deletes a row.
C3_MissThenRescue ==
    [][/\ DOMAIN db \subseteq DOMAIN db'
       /\ last'.op = "get_cached" =>
            \A k \in DOMAIN db :
               (db[k].discovery_count = 1 /\ db[k].miss_count >= 3)
                  => k \notin Ids(last'.ret.fresh \cup last'.ret.stale)
       /\ (last'.op = "upsert" /\ last'.missed >= 3) =>
            \A ttl_days \in TTLs :
               LET r == AsSets(_sqlite_get_cached_programs(db', last'.level,
                                                           last'.location_key,
                                                           ttl_days, now'))
               IN last'.ret \in Ids(r.fresh \cup r.stale)]_vars

\* the upsert that rescues a row missed 3 times has acted
C3_Witness ==
    /\ last.op = "upsert"
    /\ last.missed = 3
    /\ db[last.ret].discovery_count = 2
    /\ db[last.ret].miss_count = 0

UNKNOWN == <<"unknown">>

\* the jurisdiction row found or created for the level and names of a call
_resolve_jurisdiction_id(level, state_name) ==
    IF level = "federal"
    THEN [level |-> "federal", name |-> "United States"]
    ELSE [level |-> level, name |-> state_name]

\* the canonical populations _link_populations links to a program
_link_populations(populations) ==
    {_normalize_population(populations[i]) : i \in 1..Len(populations)} \ {"none"}

PgUpdateRow(row, program, t) ==
    LET pops == Get(program, "target_populations", <<>>)
    IN [row EXCEPT
          !.last_verified_at = t,
          !.discovery_count = @ + 1,
          !.miss_count = 0,
          !.agency = Coalesce(Get(program, "agency", EMPTY), @),
          !.benefit_type = Coalesce(Get(program, "benefit_type", UNKNOWN), @),
          !.max_value = Coalesce(Get(program, "max_value", EMPTY), @),
          !.description = Longer(Get(program, "description", EMPTY), @),
          !.source_url = Coalesce(Get(program, "source_url", EMPTY), @),
          !.confidence = Ratchet(Get(program, "confidence", "low"), @),
          !.populations = IF pops # <<>> THEN _link_populations(pops) ELSE @]

PgInsertRow(program, level, location_key, state_name, t) ==
    LET name == Get(program, "program_name", EMPTY)
    IN [id |-> CacheKey(program, level, location_key),
        jurisdiction |-> _resolve_jurisdiction_id(
                            level, IF state_name # "" THEN state_name
                                   ELSE Get(program, "jurisdiction", "")),
        name |-> name,
        name_normalized |-> Normalized(name),
        agency |-> Get(program, "agency", EMPTY),
        benefit_type |-> Get(program, "benefit_type", UNKNOWN),
        max_value |-> Get(program, "max_value", EMPTY),
        description |-> Get(program, "description", EMPTY),
        source_url |-> Get(program, "source_url", EMPTY),
        confidence |-> Get(program, "confidence", "low"),
        status |-> "active",
        first_discovered_at |-> t,
        last_verified_at |-> t,
        discovery_count |-> 1,
        miss_count |-> 0,
        populations |-> _link_populations(Get(program, "target_populations", <<>>))]

\* the table after _pg_upsert_program: INSERT ... ON CONFLICT (id) DO UPDATE
_pg_upsert_program(tbl, program, level, location_key, state_name, t) ==
    LET id == CacheKey(program, level, location_key)
    IN IF id \in DOMAIN tbl
       THEN [tbl EXCEPT ![id] = PgUpdateRow(@, program, t)]
       ELSE [k \in DOMAIN tbl \cup {id} |->
                IF k = id
                THEN PgInsertRow(program, level, location_key, state_name, t)
                ELSE tbl[k]]

\* the Postgres branch of confirm_program
PgConfirm(tbl, cache_key, t) ==
    [k \in DOMAIN tbl |->
        IF k = cache_key
        THEN [tbl[k] EXCEPT !.last_verified_at = t,
                            !.discovery_count = @ + 1,
                            !.miss_count = 0]
        ELSE tbl[k]]

\* the Postgres branch of increment_miss_count: the rows are selected by the
\* level of their jurisdiction; location_key is not used
PgIncrementMiss(tbl, level, location_key, found_keys) ==
    [k \in DOMAIN tbl |->
        IF tbl[k].jurisdiction.level = level /\ k \notin found_keys
        THEN [tbl[k] EXCEPT !.miss_count = @ + 1]
        ELSE tbl[k]]

\* a row of the SELECT of _pg_get_cached_programs as a program dict
PgRowToProgram(row) ==
    [cache_key |-> row.id, id |-> row.id,
     program_name |-> row.name,
     program_name_normalized |-> row.name_normalized,
     agency |-> row.agency, benefit_type |-> row.benefit_type,
     jurisdiction |-> row.jurisdiction.name, max_value |-> row.max_value,
     description |-> row.description, source_url |-> row.source_url,
     confidence |-> row.confidence,
     government_level |-> row.jurisdiction.level,
     first_discovered_at |-> row.first_discovered_at,
     last_verified_at |-> row.last_verified_at,
     discovery_count |-> row.discovery_count, miss_count |-> row.miss_count,
     target_populations |-> row.populations]

\* (fresh, stale) of _pg_get_cached_programs: WHERE j.level = level AND NOT
\* (miss_count >= 3 AND discovery_count <= 1); location_key is not used
_pg_get_cached_programs(tbl, level, location_key, ttl_days, t) ==
    LET cutoff == t - ttl_days
        sel == {k \in DOMAIN tbl :
                   tbl[k].jurisdiction.level = level /\ ~Hallucination(tbl[k])}
    IN [fresh |-> {PgRowToProgram(tbl[k]) : k \in {j \in sel : tbl[j].last_verified_at >= cutoff}},
        stale |-> {PgRowToProgram(tbl[k]) : k \in {j \in sel : ~(tbl[j].last_verified_at >= cutoff)}}]

(***************************************************************************)
(* The two back-ends side by side: every call of the cache API is made on  *)
(* a ProgramCache of each back-end, `db` being the tables of the embedded  *)
(* one and `pg` those of the networked one.                                *)
(***************************************************************************)
StateName(location_key) ==
    CASE location_key = "arizona" -> "Arizona"
      [] location_key = "illinois" -> "Illinois"
      [] OTHER -> ""

\* the list handed to seed_federal_programs
SeedList == << Prog(NameEZ) >>

BothCalls == { <<Prog(NameEZ), Arizona>>, <<Prog(NameEZ), Illinois>> }

BothKeys ==
    {CacheKey(c[1], c[2][1], c[2][2]) : c \in BothCalls}
       \cup {CacheKey(SeedList[i], "federal", "federal") : i \in 1..Len(SeedList)}

BothPartitions == {Arizona, Illinois, Federal}

CanMiss(tbl) == \A k \in DOMAIN tbl : tbl[k].miss_count < MaxMiss

BothUpsert ==
    \E c \in BothCalls :
        LET program == c[1]
            level == c[2][1]
            location_key == c[2][2]
            key == CacheKey(program, level, location_key)
        IN /\ CanDiscover(db, key)
           /\ db' = _sqlite_upsert_program(db, program, level, location_key, now)
           /\ pg' = _pg_upsert_program(pg, program, level, location_key,
                                       StateName(location_key), now)
           /\ last' = [op |-> "upsert", program |-> program, level |-> level,
                       location_key |-> location_key, ret |-> key,
                       missed |-> IF key \in DOMAIN db THEN db[key].miss_count ELSE -1]
           /\ UNCHANGED <<now, wk, search_log, graph, session,
                          rate_limiter, callers, sessions, roi, retry>>

BothConfirm ==
    \E key \in BothKeys :
        /\ CanDiscover(db, key)
        /\ db' = SqliteConfirm(db, key, now)
        /\ pg' = PgConfirm(pg, key, now)
        /\ last' = [op |-> "confirm", key |-> key]
        /\ UNCHANGED <<now, wk, search_log, graph, session,
                       rate_limiter, callers, sessions, roi, retry>>

BothIncrementMiss ==
    \E part \in BothPartitions :
      \E found_keys \in SUBSET {k \in DOMAIN db : db[k].government_level = part[1]} :
        /\ CanMiss(db) /\ CanMiss(pg)
        /\ db' = SqliteIncrementMiss(db, part[1], part[2], found_keys)
        /\ pg' = PgIncrementMiss(pg, part[1], part[2], found_keys)
        /\ last' = [op |-> "increment_miss", level |-> part[1],
                    location_key |-> part[2], found_keys |-> found_keys]
        /\ UNCHANGED <<now, wk, search_log, graph, session,
                       rate_limiter, callers, sessions, roi, retry>>

BothGetCached ==
    \E part \in BothPartitions, ttl_days \in TTLs :
        /\ last' = [op |-> "get_cached", level |-> part[1], location_key |-> part[2],
                    ttl_days |-> ttl_days,
                    ret |-> AsSets(_sqlite_get_cached_programs(db, part[1], part[2], ttl_days, now)),
                    pgret |-> _pg_get_cached_programs(pg, part[1], part[2], ttl_days, now)]
        /\ UNCHANGED <<db, pg, now, wk, search_log, graph, session,
                       rate_limiter, callers, sessions, roi, retry>>

RECURSIVE PgSeed(_, _, _)
PgSeed(tbl, programs, t) ==
    IF programs = <<>> THEN tbl
    ELSE PgSeed(_pg_upsert_program(tbl, Head(programs), "federal", "federal",
                                   "United States", t),
                Tail(programs), t)

BothSeedFederal ==
    /\ \A i \in 1..Len(SeedList) : CanDiscover(db, CacheKey(SeedList[i], "federal", "federal"))
    /\ db' = SqliteSeed(db, SeedList, now)
    /\ pg' = PgSeed(pg, SeedList, now)
    /\ last' = [op |-> "seed_federal", programs |-> SeedList]
    /\ UNCHANGED <<now, wk, search_log, graph, session,
                   rate_limiter, callers, sessions, roi, retry>>

NextBackends ==
    BothUpsert \/ BothConfirm \/ BothIncrementMiss \/ BothGetCached \/ BothSeedFederal

SpecBackends == Init /\ [][NextBackends]_vars

(***************************************************************************)
(* Claims on the two back-ends (specification SpecBackends).               *)
(***************************************************************************)
\* the effect increment_miss is to have on the row of key k of table tbl,
\* the partition of a key being the one its row of the embedded table records
MissEffect(tbl, tblNext, k) ==
    /\ tblNext[k].discovery_count = tbl[k].discovery_count
    /\ tblNext[k].miss_count =
          IF /\ InPartition(db[k], last'.level, last'.location_key)
             /\ k \notin last'.found_keys
          THEN tbl[k].miss_count + 1
          ELSE tbl[k].miss_count

\* C6: increment_miss(level, location_key, found_keys) adds exactly 1 to
\* miss_count of every row of the partition whose key is not in found_keys
\* and leaves unchanged the miss_count of the found rows, every row of every
\* other partition and every discovery_count, on either back-end.
C6_IncrementMissFrame ==
    [][last'.op = "increment_miss" =>
         /\ DOMAIN db' = DOMAIN db
         /\ DOMAIN pg' = DOMAIN pg
         /\ \A k \in DOMAIN db : MissEffect(db, db', k)
         /\ \A k \in DOMAIN pg : MissEffect(pg, pg', k)]_vars

\* C7: the two back-ends hold the same programs with the same
\* discovery_count and miss_count, and get_cached returns the same programs
\* as fresh and as stale on both.
C7_BackendsAgree ==
    /\ DOMAIN db = DOMAIN pg
    /\ \A k \in DOMAIN db :
          /\ db[k].discovery_count = pg[k].discovery_count
          /\ db[k].miss_count = pg[k].miss_count
    /\ last.op = "get_cached" =>
          /\ Ids(last.ret.fresh) = Ids(last.pgret.fresh)
          /\ Ids(last.ret.stale) = Ids(last.pgret.stale)

(***************************************************************************)
(* Repeated upserts of one program: the merge of the stored fields and the *)
(* confidence ratchet (specification SpecMerge).                           *)
(***************************************************************************)
FieldValues == {EMPTY, AgencyE, AgencyZ}

MergeFields == {"agency", "benefit_type", "max_value", "source_url"}

Confidences == {"low", "medium", "high"}

\* the programs upserted: every combination of the four merged fields, and
\* the program of the unit test of the ratchet with each confidence
MergePrograms ==
    { [program_name |-> NameEZ, agency |-> a, benefit_type |-> b,
       max_value |-> m, source_url |-> u] :
          a \in FieldValues, b \in FieldValues, m \in FieldValues, u \in FieldValues }
      \cup { [program_name |-> NameEZ, confidence |-> c] : c \in Confidences }

MergeKey == CacheKey([program_name |-> NameEZ], "state", "arizona")

MergeUpsert ==
    \E program \in MergePrograms :
        /\ MergeKey \in DOMAIN db => db[MergeKey].discovery_count < MaxUpserts
        /\ db' = _sqlite_upsert_program(db, program, "state", "arizona", now)
        /\ last' = [op |-> "upsert", program |-> program, level |-> "state",
                    location_key |-> "arizona", ret |-> MergeKey,
                    prior |-> IF MergeKey \in DOMAIN db
                              THEN [existed |-> TRUE,
                                    agency |-> db[MergeKey].agency,
                                    confidence |-> db[MergeKey].confidence]
                              ELSE [existed |-> FALSE]]
        /\ UNCHANGED <<pg, now, wk, search_log, graph, session,
                       rate_limiter, callers, sessions, roi, retry>>

MergeConfirm ==
    /\ MergeKey \in DOMAIN db => db[MergeKey].discovery_count < MaxUpserts
    /\ db' = SqliteConfirm(db, MergeKey, now)
    /\ last' = [op |-> "confirm", key |-> MergeKey]
    /\ UNCHANGED <<pg, now, wk, search_log, graph, session,
                   rate_limiter, callers, sessions, roi, retry>>

MergeMiss ==
    \E found_keys \in SUBSET {MergeKey} :
        /\ \A k \in DOMAIN db : db[k].miss_count < MaxMergeMiss
        /\ db' = SqliteIncrementMiss(db, "state", "arizona", found_keys)
        /\ last' = [op |-> "increment_miss", level |-> "state",
                    location_key |-> "arizona", found_keys |-> found_keys]
        /\ UNCHANGED <<pg, now, wk, search_log, graph, session,
                       rate_limiter, callers, sessions, roi, retry>>

NextMerge == MergeUpsert \/ MergeConfirm \/ MergeMiss

SpecMerge == Init /\ [][NextMerge]_vars

Rank(c) == CASE c = "low" -> 0 [] c = "medium" -> 1 [] c = "high" -> 2

\* C2: the stored confidence never moves down in low < medium < high: an
\* upsert carrying high stores high, one carrying medium stores medium
\* unless the stored value is high, and every other operation or incoming
\* value leaves the stored confidence unchanged.
C2_ConfidenceRatchet ==
    [][\A k \in DOMAIN db :
          /\ k \in DOMAIN db'
          /\ Rank(db'[k].confidence) >= Rank(db[k].confidence)
          /\ db'[k].confidence =
                IF last'.op = "upsert" /\ last'.ret = k
                THEN LET c == Get(last'.program, "confidence", "low")
                     IN IF c = "high" THEN "high"
                        ELSE IF c = "medium" /\ db[k].confidence # "high" THEN "medium"
                        ELSE db[k].confidence
                ELSE db[k].confidence]_vars

\* an upsert carrying medium on a row that stores high has left it high
C2_Witness ==
    /\ last.op = "upsert"
    /\ last.prior.existed
    /\ last.prior.confidence = "high"
    /\ Get(last.program, "confidence", "low") = "medium"
    /\ db[last.ret].confidence = "high"

NextWorker == WorkerStart(1) \/ WorkerFinish(1)

SpecWorker == Init /\ [][NextWorker]_vars

(***************************************************************************)
(* The orchestrator graph with its session.                                *)
(***************************************************************************)
NextGraph ==
    \/ RouterNode
    \/ DiscoveryNode
    \/ DiscoveryRaises
    \/ JoinNode
    \/ ErrorCheckerNode
    \/ AdminNotifyNode
    \/ AwaitShortlistNode
    \/ RoiCycleNode
    \/ FinalReportNode
    \/ SubmitShortlist

SpecGraph == Init /\ [][NextGraph]_vars

\* C9: every row persisted in the cache, by a worker upserting an extracted
\* program that passed the required-field validation, by federal seeding or
\* by a direct upsert, has a non-empty program_name_normalized.
C9_NormalizedNeverEmpty ==
    \A k \in DOMAIN db : db[k].program_name_normalized # EMPTY

\* compute_program_id of the record's own name, level and the location key
\* of the worker's partition
OwnId(p, location_key) ==
    compute_program_id(Normalized(p.program_name), p.government_level, location_key)

\* the records a finished worker returned
Returned(w) == Range(wk[w].programs)

\* p is an extracted record that was confirmed against its fuzzy match in
\* the baseline and carries the cache key of the matched row
ConfirmedAgainst(p, all_cached) ==
    /\ all_cached # <<>>
    /\ LET match == fuzzy_match_program(p, all_cached, 80)
       IN match # 0 /\ p.id = all_cached[match].cache_key

\* C10 as stated: every program record a discovery worker returns, whether
\* confirmed against the cache, newly extracted or carried over, has
\* id = compute_program_id(normalize_program_name(program_name),
\* government_level, location key of the partition).
C10_IdIsOwnHash ==
    \A w \in Workers :
       wk[w].pc = "done" =>
          \A p \in Returned(w) : p.id = OwnId(p, wk[w].location_key)

\* C10 amended: a returned record has the id computed from its own name,
\* level and the partition's location key, unless it is an extracted record
\* confirmed against a cached program; then its id is the cache key of the
\* matched baseline row, which is the id computed from that row's name.
C10_IdOwnHashOrCachedKey ==
    \A w \in Workers :
       wk[w].pc = "done" =>
          /\ \A p \in Returned(w) :
                \/ p.id = OwnId(p, wk[w].location_key)
                \/ /\ p \in {Put(e, "id", p.id) : e \in Range(wk[w].extracted)}
                   /\ ConfirmedAgainst(p, wk[w].all_cached)
          /\ \A c \in Range(wk[w].all_cached) :
                c.cache_key = OwnId(c, wk[w].location_key)

\* a worker has returned a confirmed record under the key of a cached row
\* with another name, next to a carried-over row and a new record
C10_Witness ==
    \E w \in Workers :
       /\ wk[w].pc = "done"
       /\ \E p \in Returned(w) :
             /\ p.id # OwnId(p, wk[w].location_key)
             /\ ConfirmedAgainst(p, wk[w].all_cached)
       /\ \E c \in Range(wk[w].all_cached) : c \in Returned(w)
       /\ \E e \in Range(wk[w].extracted) :
             /\ e \in Returned(w)
             /\ \A c \in Range(wk[w].all_cached) : c.cache_key # e.id

\* the federal runs that have finished: log_search writes one row of the
\* search log at the end of every run
FederalRuns ==
    Cardinality({i \in 1..Len(search_log) : search_log[i].government_level = "federal"})

\* the ids of the hard-coded federal programs
FederalIds == {FederalProg(FEDERAL_PROGRAMS[i]).id : i \in 1..Len(FEDERAL_PROGRAMS)}

\* C11: whatever the extraction returned, a finished run of the federal
\* worker has returned an entry under the id of each of the three hard-coded
\* federal programs, and once k federal runs have finished each of the three
\* rows is in the cache with discovery_count >= k and miss_count = 0.
C11_FederalNeverMissing ==
    /\ \A w \in Workers :
          wk[w].pc = "done" /\ wk[w].level = "federal" =>
             FederalIds \subseteq {p.id : p \in Returned(w)}
    /\ FederalRuns >= 1 =>
          \A id \in FederalIds :
             /\ id \in DOMAIN db
             /\ db[id].discovery_count >= FederalRuns
             /\ db[id].miss_count = 0

\* the second federal run has finished, and in it an extracted record was
\* confirmed against the row of a hard-coded program and returned under its id
C11_Witness ==
    \E w \in Workers :
       /\ wk[w].pc = "done" /\ wk[w].level = "federal"
       /\ FederalRuns = 2
       /\ \E p \in Returned(w) :
             /\ p.id \in FederalIds
             /\ p.id # OwnId(p, wk[w].location_key)
             /\ ConfirmedAgainst(p, wk[w].all_cached)

\* the step of worker w from its await to its return
Finishes(w) == wk[w].pc = "searching" /\ wk'[w].pc = "done"

\* the keys found by a run whose extraction is empty: the hard-coded
\* federal programs of a federal run, and nothing else
FoundWithoutExtraction(level) == IF level = "federal" THEN FederalIds ELSE {}

\* C12: when the extraction is empty, the worker returns every program of
\* the baseline it read at the start of the run, and the miss_count of every
\* baseline row that was not found otherwise is incremented by one.
C12_EmptyExtractionKeepsBaseline ==
    [][\A w \in Workers :
          Finishes(w) /\ wk'[w].extracted = <<>> =>
             \A c \in Range(wk[w].all_cached) :
                IF c.cache_key \in FoundWithoutExtraction(wk[w].level)
                THEN c.cache_key \in {p.id : p \in Range(wk'[w].programs)}
                ELSE /\ c \in Range(wk'[w].programs)
                     /\ db'[c.cache_key].miss_count = db[c.cache_key].miss_count + 1]_vars

\* a run with an empty extraction has returned a row of its baseline and
\* left it with one miss more than the baseline read
C12_Witness ==
    \E w \in Workers :
       /\ wk[w].pc = "done"
       /\ wk[w].extracted = <<>>
       /\ \E c \in Range(wk[w].all_cached) :
             /\ c \in Returned(w)
             /\ db[c.cache_key].miss_count = c.miss_count + 1

\* the index in the baseline of the fuzzy match of an extracted record, 0
\* when there is none
MatchOf(e, all_cached) ==
    IF all_cached # <<>> THEN fuzzy_match_program(e, all_cached, 80) ELSE 0

\* the positions of the extracted records confirmed against the row `key`
ConfirmedAt(extracted, all_cached, key) ==
    {i \in 1..Len(extracted) :
        LET match == MatchOf(extracted[i], all_cached)
        IN match # 0 /\ all_cached[match].cache_key = key}

\* the positions of the extracted records upserted as new under `key`
UpsertedAt(extracted, all_cached, key) ==
    {i \in 1..Len(extracted) :
        MatchOf(extracted[i], all_cached) = 0 /\ extracted[i].id = key}

RepeatsPreviousRun(w) ==
    /\ wk[w].pc = "done"
    /\ wk[w].prev.level = wk[w].level
    /\ wk[w].prev.location_key = wk[w].location_key
    /\ wk[w].prev.extracted = wk[w].extracted

\* C14: a worker that is run again on the same partition with the same
\* extractor output returns a merged set of the same size as in the run before
C14_RerunSameSize ==
    \A w \in Workers : RepeatsPreviousRun(w) =>
        Len(wk[w].programs) = Len(wk[w].prev.programs)

\* the programs lists the discovery nodes returned, in completion order
ReturnedPrograms ==
    Flatten([i \in 1..Len(graph.returned) |-> graph.returned[i].programs])

\* the fan-out is over and every discovery node has returned
FanInDone == graph.pc \notin {"router", "discovery", "raised"}

\* C15: the fan-out creates exactly one send per level of government_levels,
\* and once every worker has returned, the programs field (of the graph state
\* and of the session) is the concatenation of the workers' programs lists in
\* their completion order, each worker's list exactly once
C15_FanInConcatenates ==
    /\ graph.pc # "router" =>
          /\ Len(graph.sends) = Len(graph.government_levels)
          /\ \A i \in DOMAIN graph.sends :
                /\ graph.sends[i].arg.target_level = graph.government_levels[i]
                /\ graph.sends[i].node = DiscoveryNodeOf(graph.government_levels[i])
    /\ FanInDone =>
          /\ Len(graph.returned) = Len(graph.sends)
          /\ {graph.returned[i].send : i \in DOMAIN graph.returned} = DOMAIN graph.sends
          /\ graph.programs = ReturnedPrograms
          /\ session.programs = ReturnedPrograms

C15_Witness ==
    /\ graph.pc = "join"
    /\ Len(graph.returned) = 3
    /\ graph.returned[1].send > graph.returned[2].send
    /\ \A i \in DOMAIN graph.returned : graph.returned[i].programs # <<>>
    /\ graph.merged_programs = <<>>

\* the ROI cycle node of the graph starts: its analyzer runs
RoiCycleStarts == graph.pc = "roi_cycle" /\ graph'.pc = "final_report"

\* C16: the ROI cycle does not start before the user has submitted a
\* shortlist for the session
C16_RoiCycleGatedOnShortlist ==
    [][RoiCycleStarts => session.shortlists > 0]_vars

\* one discovery node of the session has raised and the others have returned
\* their programs
OneWorkerFailed ==
    /\ graph.pc = "raised"
    /\ Len(graph.returned) = Len(graph.sends) - 1
    /\ session.programs = ReturnedPrograms
    /\ session.programs # <<>>

\* C17: when one jurisdiction worker fails, for instance a county worker
\* dispatched without a county name, the session does not move to failed
C17_WorkerFailureDegrades ==
    OneWorkerFailed => session.status # "failed"

\* the records of a list that are at a level
RECURSIVE AtLevel(_, _)
AtLevel(programs, level) ==
    IF programs = <<>> THEN <<>>
    ELSE (IF Get(Head(programs), "government_level", "") = level
          THEN <<Head(programs)>> ELSE <<>>) \o AtLevel(Tail(programs), level)

LevelsOf(programs) == {programs[i].government_level : i \in DOMAIN programs}

\* the join has run on the accumulated programs
Joined == graph.pc \in {"error_checker", "branch", "roi_cycle", "final_report", "end"}

\* two records of the input, at different levels, with the same normalized name
SameNameAcrossLevels(p, q) ==
    /\ p.government_level # q.government_level
    /\ Normalized(p.program_name) = Normalized(q.program_name)
    /\ Normalized(p.program_name) # EMPTY

\* C18: the join never merges two programs of different government levels:
\* what it keeps of each level is what it keeps of that level's records alone,
\* so a record is dropped or replaced only against records of its own level,
\* and of two records with the same name at different levels each level keeps
\* a record of that name or of a name similar to it
C18_NoCrossLevelMerge ==
    Joined =>
       /\ \A level \in LevelsOf(graph.programs) :
             AtLevel(graph.merged_programs, level)
                = JoinLoop(<<>>, AtLevel(graph.programs, level))
       /\ \A p, q \in Range(graph.programs) : SameNameAcrossLevels(p, q) =>
             \E m, n \in Range(graph.merged_programs) :
                /\ m # n
                /\ m.government_level = p.government_level
                /\ n.government_level = q.government_level
                /\ JoinScoreReached(Normalized(p.program_name), m)
                /\ JoinScoreReached(Normalized(q.program_name), n)

C18_Witness ==
    /\ Joined
    /\ \E m, n \in Range(graph.merged_programs) :
          /\ SameNameAcrossLevels(m, n)
          /\ m.confidence = n.confidence
          /\ m.description = n.description

\* two records of the join's input at positions i < j: same level, non-empty
\* normalized names, token-set similarity of 90 or more
SimilarPair(programs, i, j) ==
    /\ i < j
    /\ SameLevel(programs[i], programs[j])
    /\ Normalized(programs[i].program_name) # EMPTY
    /\ Normalized(programs[j].program_name) # EMPTY
    /\ JoinScoreReached(Normalized(programs[i].program_name), programs[j])

\* the record the claim keeps of an earlier and a later record: the higher
\* confidence, then the longer description, then the earlier
Better(earlier, later) ==
    IF ConfidenceRank(later) > ConfidenceRank(earlier) THEN later
    ELSE IF ConfidenceRank(later) < ConfidenceRank(earlier) THEN earlier
    ELSE IF Len(later.description) > Len(earlier.description) THEN later
    ELSE earlier

OnlyPairOfLevel(programs, i, j) ==
    \A k \in DOMAIN programs : SameLevel(programs[k], programs[i]) => k \in {i, j}

ArrivalOrders ==
    {order \in [DOMAIN graph.sends -> DOMAIN graph.sends] :
        \A i, j \in DOMAIN graph.sends : i # j => order[i] # order[j]}

\* the programs list send i returned
OutputOf(i) ==
    (CHOOSE r \in Range(graph.returned) : r.send = i).programs

\* the accumulated programs list had the outputs arrived in that order
ArrivedIn(order) ==
    Flatten([k \in DOMAIN graph.sends |-> OutputOf(order[k])])

\* the join has just run
JustJoined == graph.pc = "error_checker"

\* C20: for the outputs the workers returned, one worker per level, the ids
\* of the merged programs are the ids the join produces for every arrival
\* order of those outputs
C20_MergedIdsOrderIndependent ==
    JustJoined => \A order \in ArrivalOrders :
        Ids(Range(JoinLoop(<<>>, ArrivedIn(order)))) = Ids(Range(graph.merged_programs))

C20_Witness ==
    /\ JustJoined
    /\ Len(graph.sends) = 3
    /\ \E order \in ArrivalOrders :
          /\ ArrivedIn(order) # graph.programs
          /\ JoinLoop(<<>>, ArrivedIn(order)) # graph.merged_programs
          /\ Len(graph.merged_programs) < Len(graph.programs)
    /\ \E m, n \in Range(graph.merged_programs) : SameNameAcrossLevels(m, n)

(***************************************************************************)
(* The /discover endpoint and its background workflows.                    *)
(***************************************************************************)
NextApi == discover_incentives \/ WorkflowStarts \/ WorkflowEnds

SpecApi == Init /\ [][NextApi]_vars

(***************************************************************************)
(* The rate limiter under concurrent callers, over days.                   *)
(***************************************************************************)
NextLimiter ==
    \/ \E c \in Callers :
          CanStartSession(c) \/ StartSession(c) \/ EndSession(c) \/ Check(c) \/ Increment(c)
    \/ Tick

SpecLimiter == Init /\ [][NextLimiter]_vars

\* a session whose workflow has not ended
StillRunning == {id \in DOMAIN sessions.store : sessions.store[id].status \notin Finished}

\* C21: with max_concurrent_sessions = 1, a /discover call that arrives
\* while an earlier session is still running returns a denial, stores no
\* session and adds no workflow to the background tasks.
C21_SecondDiscoverDenied ==
    [][(last'.op = "discover" /\ StillRunning # {}) =>
         /\ last'.response.status = "denied"
         /\ sessions'.store = sessions.store
         /\ sessions'.tasks = sessions.tasks]_vars

\* C22: the number of active sessions never exceeds max_concurrent_sessions
\* and the sessions-started-today counter never exceeds
\* max_sessions_per_day, whatever the interleaving of callers that start a
\* session only after can_start_session allowed it.
C22_SessionCeilingsHold ==
    /\ Cardinality(rate_limiter._active_sessions) <= max_concurrent_sessions
    /\ rate_limiter._daily_sessions <= max_sessions_per_day

\* C23: for every started session the recorded search-call count never
\* exceeds max_exa_queries_per_session and the LLM-call count never exceeds
\* max_llm_calls_per_session, whatever the interleaving of callers that
\* record a call only after the check allowed it.
C23_CallCeilingsHold ==
    \A id \in DOMAIN rate_limiter._session_counters :
        /\ rate_limiter._session_counters[id].exa <= max_exa_queries_per_session
        /\ rate_limiter._session_counters[id].llm <= max_llm_calls_per_session

(***************************************************************************)
(* The router's analysis over the outcomes of its LLM chain.               *)
(***************************************************************************)
SpecRouter == Init /\ [][RouterAnalyze]_vars

\* the position of the first occurrence of x in l
FirstIndex(l, x) == CHOOSE i \in 1..Len(l) : l[i] = x /\ \A j \in 1..(i - 1) : l[j] # x

\* the list the routing model gave, empty when it gave none
GivenLevels(outcome) ==
    IF outcome.kind = "dict" /\ "government_levels" \in DOMAIN outcome
       /\ outcome.government_levels.type = "list"
    THEN outcome.government_levels.value ELSE <<>>

\* C24: whatever the router's LLM call yields, the government_levels the
\* router returns contain federal and state, hold no level twice, and hold
\* the levels the model gave in the order of their first occurrences.
C24_RequiredLevelsNoDuplicates ==
    last.op = "analyze" =>
        LET r == last.ret.government_levels
            given == GivenLevels(last.outcome)
        IN /\ {"federal", "state"} \subseteq Range(r)
           /\ \A i, j \in 1..Len(r) : i # j => r[i] # r[j]
           /\ Range(given) \subseteq Range(r)
           /\ \A a, b \in Range(given) :
                 FirstIndex(given, a) < FirstIndex(given, b)
                     => FirstIndex(r, a) < FirstIndex(r, b)

\* the model named county twice around federal and no state: state was put
\* in front and county kept its place before federal
C24_Witness ==
    /\ last.op = "analyze"
    /\ GivenLevels(last.outcome) = <<"county", "federal", "county">>
    /\ last.ret.government_levels = <<"state", "county", "federal">>

(***************************************************************************)
(* The ROI cycle; the fair specification lets every enabled node run, as   *)
(* the graph runtime does.                                                 *)
(***************************************************************************)
NextRoi == RoiEnter \/ RoiAnalyzer \/ QuestionGenerator \/ Refinement

SpecRoi == Init /\ [][NextRoi]_vars

SpecRoiFair == SpecRoi /\ WF_vars(NextRoi)

\* C25: the ROI cycle terminates whatever the LLM yields and whatever the
\* answers are: every execution of refine raises refinement_round by exactly
\* 1, the round never passes max_rounds, the cycle exits at the latest when
\* the round reaches max_rounds, and a cycle that was entered exits.
C25_CycleTerminates ==
    /\ [][last'.op = "refinement" =>
            /\ roi'.refinement_round = roi.refinement_round + 1
            /\ roi'.refinement_round <= roi.max_rounds
            /\ (roi'.refinement_round = roi.max_rounds => roi'.pc = "exit")
            /\ roi'.pc \in {"exit", "roi_analyzer"}]_vars
    /\ (roi.pc # "idle" ~> roi.pc = "exit")

\* the cycle ran max_rounds rounds on a program that kept needing
\* refinement, and left by the bound on the rounds
C25_Witness ==
    /\ roi.pc = "exit"
    /\ roi.refinement_round = max_roi_refinement_rounds
    /\ \E i \in 1..Len(roi.roi_calculations) : roi.roi_calculations[i].needs_refinement

\* C26: when the answers of a shortlisted program give num_hires = 0, refine
\* computes a total ROI of 0 for it and does not count it as refined: if its
\* analysis needed refinement, the cycle is complete only by the bound on
\* the rounds.
C26_ZeroHiresNotComplete ==
    [][last'.op = "refinement" =>
         \A i \in 1..Len(roi.roi_calculations) :
            LET calc == roi.roi_calculations[i]
                key == QuestionId(calc.program_id, "num_hires")
            IN (key \in DOMAIN roi.roi_answers /\ roi.roi_answers[key] = Number(0)) =>
                  /\ roi'.roi_calculations[i].refined_total_roi = 0
                  /\ calc.needs_refinement =>
                        (roi'.is_complete => roi'.refinement_round >= roi.max_rounds)]_vars

(***************************************************************************)
(* The ROI calculator of the API over the sessions with a shortlist.       *)
(***************************************************************************)
SpecCalc == InitCalc /\ [][submit_roi_answers]_vars

\* the type of the program the latest calculation is about
CalcProgram == sessions.store[last.session_id].shortlisted_programs[1]

\* the floor of a known benefit type
FloorOf(benefit_type) ==
    IF benefit_type = TaxCredit THEN 2000
    ELSE IF benefit_type = WageSubsidy THEN 3000
    ELSE IF benefit_type = TrainingGrant THEN 1500
    ELSE 1000

\* the avg_wage the latest request carried for the program
GivenWage == Get(last.answers, QuestionId(CalcProgram.id, "avg_wage"), Number(15))

\* C27: the calculator gives a program with max_value "Varies" and
\* benefit_type tax_credit the per-hire value 2000, and gives a program of
\* a known benefit type (tax_credit, wage_subsidy, training_grant, other)
\* whose value would otherwise compute to 0 the floor of its type.
C27_FloorOfType ==
    (last.op = "roi_answers" /\ last.status = 200) =>
        LET per_hire == last.calculations[1].roi_per_hire
            benefit_type == Lower(CalcProgram.benefit_type)
            demo == sessions.store[last.session_id].demo_mode
        IN /\ (CalcProgram.max_value = Varies /\ benefit_type = TaxCredit)
                 => per_hire = <<2000, 1>>
           /\ (benefit_type \in {TaxCredit, WageSubsidy, TrainingGrant, OtherBenefit}
               /\ ParsedValue(CalcProgram, GivenWage, demo)[1] = 0)
                 => per_hire = <<FloorOf(benefit_type), 1>>

(***************************************************************************)
(* The worker's search with its retries.                                   *)
(***************************************************************************)
NextSearch == SearchStart \/ SearchAttempt

SpecSearch == Init /\ [][NextSearch]_vars

BranchNodes == {"admin_notify", "await_shortlist"}

\* C29: in every run the nodes execute in the order router, the dispatched
\* workers (each once, in any order), join, error_checker, admin_notify and
\* await_shortlist (in either order), roi_cycle, final_report; join has run
\* exactly once in every run that has stopped, and only after every
\* dispatched worker; final_report runs only after the ROI cycle.
C29_NodeOrder ==
    LET e == graph.executed
        n == Len(graph.sends)
    IN /\ Len(e) <= n + 7
       /\ Len(e) >= 1 => e[1] = "router"
       /\ \A i \in 2..(n + 1) :
             i <= Len(e) =>
                /\ \E k \in 1..n : graph.sends[k].node = e[i]
                /\ \A j \in 2..(n + 1) : (j <= Len(e) /\ j # i) => e[j] # e[i]
       /\ Len(e) >= n + 2 => e[n + 2] = "join"
       /\ Len(e) >= n + 3 => e[n + 3] = "error_checker"
       /\ Len(e) >= n + 4 => e[n + 4] \in BranchNodes
       /\ Len(e) >= n + 5 => {e[n + 4], e[n + 5]} = BranchNodes
       /\ Len(e) >= n + 6 => e[n + 6] = "roi_cycle"
       /\ Len(e) >= n + 7 => e[n + 7] = "final_report"
       /\ graph.pc \in {"end", "raised"} =>
             Cardinality({i \in 1..Len(e) : e[i] = "join"}) = 1

\* C30: every step of one worker run leaves every row outside the worker's
\* own (government_level, location_key) partition as it was: the rows it
\* inserts or changes, and the search it logs, carry its level and key, and
\* it removes no row.
C30_WritesStayInPartition ==
    [][\A w \in Workers :
          (last'.op \in {"worker_start", "worker_finish"} /\ last'.worker = w) =>
             /\ DOMAIN db \subseteq DOMAIN db'
             /\ \A k \in DOMAIN db' :
                   (k \notin DOMAIN db \/ db'[k] # db[k]) =>
                      /\ db'[k].government_level = wk'[w].level
                      /\ db'[k].location_key = wk'[w].location_key
             /\ \A i \in (Len(search_log) + 1)..Len(search_log') :
                   /\ search_log'[i].government_level = wk'[w].level
                   /\ search_log'[i].location_key = wk'[w].location_key]_vars

\* a state run has just bumped miss_count in its own partition while the
\* federal partition holds rows
C30_Witness ==
    /\ last.op = "worker_finish"
    /\ wk[1].pc = "done" /\ wk[1].level = "state"
    /\ \E k \in DOMAIN db : db[k].government_level = "state" /\ db[k].miss_count > 0
    /\ \E k \in DOMAIN db : db[k].government_level = "federal"

(***************************************************************************)
(* The validator on merged lists of every shape.                           *)
(***************************************************************************)
MaxMerged == 2

\* a key of a dict: absent, or present with one of the values
Field(f, values, optional) ==
    {f :> v : v \in values} \cup (IF optional THEN {<<>>} ELSE {})

\* the required fields of a merged program: all present, or one of them
\* absent or empty
RequiredShapes ==
    { [program_name |-> NameEZ, agency |-> AgencyE, benefit_type |-> TypeOther],
      [agency |-> AgencyE, benefit_type |-> TypeOther],
      [program_name |-> NameEZ, agency |-> EMPTY, benefit_type |-> TypeOther],
      [program_name |-> NameEZ, agency |-> AgencyE] }

\* merged programs with and without a source, a confidence and the
\* required fields
MergedPrograms ==
    { a @@ b @@ c :
        a \in Field("source_url", {EMPTY, <<"e">>}, TRUE),
        b \in Field("confidence", {"low", "high"}, TRUE),
        c \in RequiredShapes }

MergedLists == UNION {[1..n -> MergedPrograms] : n \in 0..MaxMerged}

\* the graph when the join has returned one of the merged lists
InitValidator ==
    /\ Constructed
    /\ sessions = NoSessions
    /\ \E merged \in MergedLists :
          graph = [initial_state EXCEPT !.pc = "error_checker",
                                        !.merged_programs = merged]

SpecValidator == InitValidator /\ [][ErrorCheckerNode]_vars

\* the key is present and its value is not empty
Present(prog, f) == f \in DOMAIN prog /\ prog[f] # EMPTY

\* C31: validated_programs has exactly one entry per merged program, in the
\* same order (each entry is the merged program plus the two tags), and an
\* entry has validated = TRUE iff its validation_errors is empty, iff the
\* program has a source_url, a confidence that is not low, and program_name,
\* agency and benefit_type.
C31_ValidatorTagsEveryProgram ==
    graph.pc = "branch" =>
        LET merged == graph.merged_programs
            validated == graph.validated_programs
        IN /\ Len(validated) = Len(merged)
           /\ \A i \in 1..Len(merged) :
                 /\ DOMAIN validated[i] = DOMAIN merged[i] \cup {"validated", "validation_errors"}
                 /\ \A f \in DOMAIN merged[i] : validated[i][f] = merged[i][f]
                 /\ validated[i].validated = (validated[i].validation_errors = <<>>)
                 /\ validated[i].validated =
                       (/\ Present(merged[i], "source_url")
                        /\ ~("confidence" \in DOMAIN merged[i] /\ merged[i].confidence = "low")
                        /\ \A f \in RequiredFields : Present(merged[i], f))

\* a list of two programs, the first with errors and the second, which has
\* no confidence, without
C31_Witness ==
    /\ graph.pc = "branch"
    /\ Len(graph.merged_programs) = 2
    /\ Len(graph.validated_programs[1].validation_errors) >= 2
    /\ ~graph.validated_programs[1].validated
    /\ graph.validated_programs[2].validated
    /\ "confidence" \notin DOMAIN graph.merged_programs[2]

\* the questions generate_questions emitted for one calculation
QuestionsOf(calc) ==
    {i \in 1..Len(roi.roi_questions) : roi.roi_questions[i].program_id = calc.program_id}

\* C32: when the question generator has run, every calculation that needs
\* refinement has at least one question: as many questions as items of
\* needs_more_info, each of type number, currency or percentage, and the one
\* general number question when no item is listed.
C32_QuestionPerNeededItem ==
    roi.pc = "refinement" =>
        \A i \in 1..Len(roi.roi_calculations) :
            LET calc == roi.roi_calculations[i]
                needs_info == Get(calc, "needs_more_info", <<>>)
            IN calc.needs_refinement =>
                  /\ QuestionsOf(calc) # {}
                  /\ \A q \in QuestionsOf(calc) :
                        roi.roi_questions[q].type \in {"number", "currency", "percentage"}
                  /\ needs_info # <<>> => Cardinality(QuestionsOf(calc)) = Len(needs_info)
                  /\ needs_info = <<>> =>
                        /\ Cardinality(QuestionsOf(calc)) = 1
                        /\ \A q \in QuestionsOf(calc) :
                              roi.roi_questions[q].question_id
                                  = QuestionId(calc.program_id, "general")

\* the texts that make an error retryable: the status codes 429, 500, 502,
\* 503 and 504, connection errors, timeouts, and rate, limit, overloaded
RetryableTexts ==
    RetryTokens \cup { <<"5", "0", "4">>,
                       <<"o", "v", "e", "r", "l", "o", "a", "d", "e", "d">> }

Retryable(error_str) == \E t \in RetryableTexts : Contains(Lower(error_str), t)

\* C33: a failed provider call is retried if and only if its error is
\* retryable (429, 500, 502, 503, 504, connection, timeout, rate, limit,
\* overloaded), as long as retries are left; an error with status 400, 401,
\* 403 or 404 is never retried.
C33_RetriedIffRetryable ==
    /\ (retry.pc = "attempt" /\ retry.calls > 0) =>
          (last.outcome.kind = "raise" /\ Retryable(last.outcome.error))
    /\ (retry.pc = "returned" /\ retry.failed /\ retry.attempt < MAX_RETRIES) =>
          ~Retryable(last.outcome.error)

\* C34: when the analyze step has run, roi_calculations has exactly one
\* entry per shortlisted program, in shortlist order, whatever calls of the
\* chain failed, and the entry of a program carries an error field exactly
\* when its call or the parsing of its response failed.
C34_AnalyzeFailureIsPerProgram ==
    (roi.pc = "question_generator" /\ last.op = "roi_analyzer") =>
        /\ Len(roi.roi_calculations) = Len(roi.shortlisted_programs)
        /\ \A i \in 1..Len(roi.shortlisted_programs) :
              /\ roi.roi_calculations[i].program_id = roi.shortlisted_programs[i].id
              /\ roi.roi_calculations[i].program_name
                    = roi.shortlisted_programs[i].program_name
              /\ ("error" \in DOMAIN roi.roi_calculations[i])
                    = (last.responses[i].kind = "raise")

\* the call for the first of two programs failed, the second was analysed
C34_Witness ==
    /\ roi.pc = "question_generator" /\ last.op = "roi_analyzer"
    /\ Len(roi.shortlisted_programs) = 2
    /\ last.responses[1].kind = "raise"
    /\ "error" \in DOMAIN roi.roi_calculations[1]
    /\ "estimated_value_per_hire" \in DOMAIN roi.roi_calculations[2]

\* C35: every program of the baseline the worker read (fresh and stale rows
\* of its partition) is in the list the worker returns, as a record whose
\* id is the program's cache_key, whatever the extraction returned.
C35_BaselineIsFloor ==
    \A w \in Workers :
        wk[w].pc = "done" =>
            \A i \in 1..Len(wk[w].all_cached) :
                \E j \in 1..Len(wk[w].programs) :
                    wk[w].programs[j].id = wk[w].all_cached[i].cache_key

\* C36: when a run has finished, the discovery_count of every program of
\* the baseline it read is at most one above the count the baseline read,
\* however many extracted records matched the program and whether or not it
\* is one of the hard-coded federal programs.
C36_CountedOncePerRun ==
    \A w \in Workers :
        wk[w].pc = "done" =>
            \A c \in Range(wk[w].all_cached) :
                db[c.cache_key].discovery_count <= c.discovery_count + 1

\* C37: the merged list the join has returned holds no two records of one
\* government level whose normalized names have a token-set similarity of
\* 90 or more.
C37_MergedPairwiseDistinct ==
    graph.current_phase = "join_complete" =>
        \A i, j \in 1..Len(graph.merged_programs) :
            (i # j /\ SameLevel(graph.merged_programs[i], graph.merged_programs[j])) =>
                ~JoinScoreReached(Normalized(graph.merged_programs[i].program_name),
                                  graph.merged_programs[j])

\* the discovery nodes create_incentive_graph registers
RegisteredNodes ==
    {"city_discovery", "county_discovery", "state_discovery", "federal_discovery"}

\* C38: for every response the router accepts, every element of the
\* government_levels it returns is one of the four levels, and every send of
\* the fan-out on them targets a registered discovery node.
C38_SendsTargetRegisteredNodes ==
    last.op = "analyze" =>
        LET sends == route_to_discovery(router_node(last.ret))
        IN /\ \A i \in 1..Len(last.ret.government_levels) :
                 last.ret.government_levels[i] \in Levels
           /\ \A i \in 1..Len(sends) : sends[i].node \in RegisteredNodes

(***************************************************************************)
(* Two sessions whose workers overlap: every discover runs on the event    *)
(* loop and is suspended only at its awaits (search, extraction), between  *)
(* its two steps; every call of the cache is one synchronous transaction.  *)
(***************************************************************************)
MaxSessionRuns == 1

\* the worker of a session starts its run
SessionStart(w) == wk[w].runs < MaxSessionRuns /\ WorkerStart(w)

NextSessions == \E w \in Workers : SessionStart(w) \/ WorkerFinish(w)

SpecSessions == Init /\ [][NextSessions]_vars

\* discovery_count of the row under key, 0 when there is none
CountOf(tbl, key) == IF key \in DOMAIN tbl THEN tbl[key].discovery_count ELSE 0

\* the hard-coded programs a run at this level upserts under key in step 2
SeededAt(level, key) ==
    IF level = "federal"
    THEN {i \in 1..Len(FEDERAL_PROGRAMS) :
             CacheKey(FEDERAL_PROGRAMS[i], "federal", "federal") = key}
    ELSE {}

Begins(w) == wk[w].pc # "searching" /\ wk'[w].pc = "searching"

\* C39: whatever the other session's worker has written in between, every
\* step of a worker adds to the discovery_count of a row exactly its own
\* upserts and confirmations of that row, on top of the count the row has
\* in the table at that moment (1 for a row it inserts), and no row is
\* removed: no update of either run is lost.
C39_NoLostUpdate ==
    [][\A w \in Workers :
          /\ DOMAIN db \subseteq DOMAIN db'
          /\ Begins(w) =>
                \A k \in DOMAIN db' :
                    CountOf(db', k) = CountOf(db, k) + Cardinality(SeededAt(wk'[w].level, k))
          /\ Finishes(w) =>
                \A k \in DOMAIN db' :
                    CountOf(db', k)
                       = CountOf(db, k)
                         + Cardinality(ConfirmedAt(wk'[w].extracted, wk[w].all_cached, k))
                         + Cardinality(UpsertedAt(wk'[w].extracted, wk[w].all_cached, k))]_vars

\* the two runs overlapped on one partition: neither read the row in its
\* baseline, both upserted it, and it counts both
C39_Witness ==
    /\ wk[1].pc = "done" /\ wk[2].pc = "done"
    /\ wk[1].level = wk[2].level
    /\ \E k \in DOMAIN db :
          /\ UpsertedAt(wk[1].extracted, wk[1].all_cached, k) # {}
          /\ UpsertedAt(wk[2].extracted, wk[2].all_cached, k) # {}
          /\ \A i \in 1..Len(wk[1].all_cached) : wk[1].all_cached[i].cache_key # k
          /\ \A i \in 1..Len(wk[2].all_cached) : wk[2].all_cached[i].cache_key # k
          /\ db[k].discovery_count
                = Cardinality(UpsertedAt(wk[1].extracted, wk[1].all_cached, k))
                  + Cardinality(UpsertedAt(wk[2].extracted, wk[2].all_cached, k))

\* the values of a session's status during discovery
DiscoveryPhase ==
    {"routing", "discovering", "searching", "merging", "validating", "completed"}

\* C40: once submit_shortlist has set the session's status to roi_cycle, no
\* event of the session's discovery workflow sets it back to a value of the
\* discovery phase.
C40_RoiCycleStatusKept ==
    [][session.status = "roi_cycle" => session'.status \notin DiscoveryPhase]_vars

=============================================================================
